---- MODULE Spec2Model ----
(***************************************************************************)
(* A model of the partial-header image prober of zencodecs:                *)
(* ImageFormat::detect (src/src/format.rs), the per-format header parsers  *)
(* and the ISOBMFF box walker (src/src/probe.rs), the probing entry points *)
(* (src/src/info.rs) and the decode registry (src/src/registry.rs).        *)
(*                                                                         *)
(* Bytes are 0..255, a byte slice is a sequence of bytes and data[i] of    *)
(* the source is d[i + 1] here.  u32, u64 and usize values that can exceed *)
(* the checker's integers are kept as four 16-bit limbs, least significant *)
(* first, so that sums wrap or overflow exactly where the machine word     *)
(* does.                                                                   *)
(***************************************************************************)
EXTENDS Integers, Sequences, FiniteSets, TLC

VARIABLES
    data,     \* the byte slice handed to the prober
    parts,    \* how many pieces the input was assembled from
    img,      \* what the assembled bytes encode (family, stage, dimensions)
    full,     \* length of the whole file of which data is a prefix
    phase,    \* "build" | "cut" | "probed" | "converted"
    call,     \* the last call made on data, with its arguments
    res,      \* what that call produced
    info      \* result of ProbeResult::into_image_info, once converted

vars == <<data, parts, img, full, phase, call, res, info>>

(***************************************************************************)
(* Option<T>                                                               *)
(***************************************************************************)
None == <<>>
Some(x) == <<x>>
IsSome(o) == o # None
Unwrap(o) == o[1]

Min(a, b) == IF a <= b THEN a ELSE b
Max(a, b) == IF a >= b THEN a ELSE b

(***************************************************************************)
(* Machine integers as 16-bit limbs.                                       *)
(***************************************************************************)
Limb == 256 * 256

\* a checker integer 0 <= n < 2^31 as a wide value
W(n) == <<n % Limb, n \div Limb, 0, 0>>

\* a wide value below 2^31 as a checker integer
ToInt(a) == a[1] + a[2] * Limb

WLt(a, b) ==
    \/ a[4] < b[4]
    \/ a[4] = b[4] /\ a[3] < b[3]
    \/ a[4] = b[4] /\ a[3] = b[3] /\ a[2] < b[2]
    \/ a[4] = b[4] /\ a[3] = b[3] /\ a[2] = b[2] /\ a[1] < b[1]
WLe(a, b) == a = b \/ WLt(a, b)

\* the exact sum: four limbs and the carry out of bit 64
WSum(a, b) ==
    LET s1 == a[1] + b[1]
        s2 == a[2] + b[2] + s1 \div Limb
        s3 == a[3] + b[3] + s2 \div Limb
        s4 == a[4] + b[4] + s3 \div Limb
    IN  [v |-> <<s1 % Limb, s2 % Limb, s3 % Limb, s4 % Limb>>, carry |-> s4 \div Limb]

\* u32::from_be_bytes / u64::from_be_bytes
U32FromBe(b0, b1, b2, b3) == <<b2 * 256 + b3, b0 * 256 + b1, 0, 0>>
U64FromBe(b0, b1, b2, b3, b4, b5, b6, b7) ==
    <<b6 * 256 + b7, b4 * 256 + b5, b2 * 256 + b3, b0 * 256 + b1>>

\* `x as usize`: lossless on a 64-bit word, the low 32 bits on a 32-bit word
AsUsize(x, b) == IF b.usize_bits = 32 THEN <<x[1], x[2], 0, 0>> ELSE x

\* usize `a + b`: with overflow checks an overflowing sum panics, without
\* them it wraps to the word
UsizeAdd(a, c, b) ==
    LET s   == WSum(a, c)
        ovf == IF b.usize_bits = 32 THEN s.v[3] # 0 \/ s.v[4] # 0 \/ s.carry # 0
               ELSE s.carry # 0
    IN  [v     |-> IF b.usize_bits = 32 THEN <<s.v[1], s.v[2], 0, 0>> ELSE s.v,
         panic |-> ovf /\ b.overflow_checks]

\* u16::from_le_bytes, u16::from_be_bytes, u32::from_le_bytes
U16FromLe(b0, b1) == b0 + b1 * 256
U16FromBe(b0, b1) == b0 * 256 + b1
U32FromLe(b0, b1, b2, b3) == <<b1 * 256 + b0, b3 * 256 + b2, 0, 0>>

\* (x & 0x3FFF) and ((x >> 14) & 0x3FFF) of a u32
Low14(x) == x[1] % (64 * 256)
Next14(x) == (x[1] \div (64 * 256) + x[2] * 4) % (64 * 256)

(***************************************************************************)
(* Byte slices.                                                            *)
(***************************************************************************)
\* data[i]; an index past the end is a panic, recorded by the caller through
\* the highest index it asked for
At(d, i) == IF i < Len(d) THEN d[i + 1] ELSE 0
\* &data[a..b]
Slice(d, a, b) == SubSeq(d, a + 1, Min(b, Len(d)))

Formats == {"Jpeg", "WebP", "Gif", "Png", "Avif", "Jxl"}

(***************************************************************************)
(* ProbeResult and the outcome of a parser call: "ok" with a ProbeResult,  *)
(* or "panic".  rd is the highest byte index the call asked for (-1 when   *)
(* it asked for none).                                                     *)
(***************************************************************************)
ProbeResult(fmt, be) ==
    [format |-> fmt, width |-> None, height |-> None, has_alpha |-> None,
     has_animation |-> None, frame_count |-> None, bit_depth |-> None,
     bytes_examined |-> be]

Ok(r, rd) == [st |-> "ok", r |-> r, rd |-> rd]
Panicked(rd) == [st |-> "panic", r |-> None, rd |-> rd]
\* a parser that indexes the whole slice: asking for an index past the end panics
Checked(d, r, rd) == IF rd >= Len(d) THEN Panicked(rd) ELSE Ok(r, rd)

(***************************************************************************)
(* Four-byte tags and signatures (ASCII).                                  *)
(***************************************************************************)
TagIHDR == <<73, 72, 68, 82>>
TagVP8X == <<86, 80, 56, 88>>
TagVP8  == <<86, 80, 56, 32>>
TagVP8L == <<86, 80, 56, 76>>
TagFtyp == <<102, 116, 121, 112>>
TagAvif == <<97, 118, 105, 102>>
TagAvis == <<97, 118, 105, 115>>
TagMeta == <<109, 101, 116, 97>>
TagIprp == <<105, 112, 114, 112>>
TagIpco == <<105, 112, 99, 111>>
TagIspe == <<105, 115, 112, 101>>

(***************************************************************************)
(* probe_png                                                               *)
(***************************************************************************)
\* a faulty probe_png: width and height read from each other's offsets
probe_png_swapped(d) ==
    LET n      == Len(d)
        result == ProbeResult("Png", W(Min(n, 33)))
    IN  IF n < 33 THEN Checked(d, result, -1)
        ELSE IF Slice(d, 12, 16) # TagIHDR THEN Checked(d, result, 15)
        ELSE Checked(d, [result EXCEPT
                 !.width = Some(U32FromBe(At(d, 20), At(d, 21), At(d, 22), At(d, 23))),
                 !.height = Some(U32FromBe(At(d, 16), At(d, 17), At(d, 18), At(d, 19))),
                 !.bit_depth = Some(At(d, 24)),
                 !.has_alpha = Some(At(d, 25) = 4 \/ At(d, 25) = 6)], 25)

\* a faulty probe_png: the chunk tag at offset 12 is not verified
probe_png_any_chunk(d) ==
    LET n      == Len(d)
        result == ProbeResult("Png", W(Min(n, 33)))
    IN  IF n < 33 THEN Checked(d, result, -1)
        ELSE Checked(d, [result EXCEPT
                 !.width = Some(U32FromBe(At(d, 16), At(d, 17), At(d, 18), At(d, 19))),
                 !.height = Some(U32FromBe(At(d, 20), At(d, 21), At(d, 22), At(d, 23))),
                 !.bit_depth = Some(At(d, 24)),
                 !.has_alpha = Some(At(d, 25) = 4 \/ At(d, 25) = 6)], 25)

probe_png(d) ==
    LET n      == Len(d)
        result == ProbeResult("Png", W(Min(n, 33)))
    IN  IF n < 33 THEN Checked(d, result, -1)
        ELSE IF Slice(d, 12, 16) # TagIHDR THEN Checked(d, result, 15)
        ELSE LET width      == U32FromBe(At(d, 16), At(d, 17), At(d, 18), At(d, 19))
                 height     == U32FromBe(At(d, 20), At(d, 21), At(d, 22), At(d, 23))
                 bit_depth  == At(d, 24)
                 color_type == At(d, 25)
             IN  Checked(d, [result EXCEPT !.width = Some(width),
                                           !.height = Some(height),
                                           !.bit_depth = Some(bit_depth),
                                           !.has_alpha = Some(color_type = 4 \/ color_type = 6),
                                           !.has_animation = None], 25)

(***************************************************************************)
(* probe_gif                                                               *)
(***************************************************************************)
\* a faulty probe_gif: the height is left unset
probe_gif_width_only(d) ==
    LET n      == Len(d)
        result == ProbeResult("Gif", W(Min(n, 13)))
    IN  IF n < 13 THEN Checked(d, result, -1)
        ELSE Checked(d, [result EXCEPT !.width = Some(W(U16FromLe(At(d, 6), At(d, 7)))),
                                       !.has_alpha = Some(TRUE),
                                       !.bit_depth = Some(8)], 9)

\* a faulty probe_gif: ten bytes are taken to be enough
probe_gif_short(d) ==
    LET n      == Len(d)
        result == ProbeResult("Gif", W(Min(n, 13)))
    IN  IF n < 10 THEN Checked(d, result, -1)
        ELSE Checked(d, [result EXCEPT !.width = Some(W(U16FromLe(At(d, 6), At(d, 7)))),
                                       !.height = Some(W(U16FromLe(At(d, 8), At(d, 9)))),
                                       !.has_alpha = Some(TRUE),
                                       !.bit_depth = Some(8)], 9)

\* a faulty probe_gif: the bit depth is the colour resolution (bits 4..6 of
\* the packed byte at offset 10, plus 1)
probe_gif_depth(d) ==
    LET n      == Len(d)
        result == ProbeResult("Gif", W(Min(n, 13)))
    IN  IF n < 13 THEN Checked(d, result, -1)
        ELSE Checked(d, [result EXCEPT !.width = Some(W(U16FromLe(At(d, 6), At(d, 7)))),
                                       !.height = Some(W(U16FromLe(At(d, 8), At(d, 9)))),
                                       !.has_alpha = Some(TRUE),
                                       !.bit_depth = Some(((At(d, 10) \div 16) % 8) + 1)], 10)

probe_gif(d) ==
    LET n      == Len(d)
        result == ProbeResult("Gif", W(Min(n, 13)))
    IN  IF n < 13 THEN Checked(d, result, -1)
        ELSE LET width  == U16FromLe(At(d, 6), At(d, 7))
                 height == U16FromLe(At(d, 8), At(d, 9))
             IN  Checked(d, [result EXCEPT !.width = Some(W(width)),
                                           !.height = Some(W(height)),
                                           !.has_alpha = Some(TRUE),
                                           !.bit_depth = Some(8),
                                           !.has_animation = None], 9)

(***************************************************************************)
(* probe_webp                                                              *)
(***************************************************************************)
\* a faulty webp_vp8x: the stored canvas size is reported without the + 1
webp_vp8x_stored(d, result) ==
    IF Len(d) < 30 THEN Checked(d, result, 15)
    ELSE Checked(d, [result EXCEPT
             !.width = Some(W(At(d, 24) + At(d, 25) * 256 + At(d, 26) * Limb)),
             !.height = Some(W(At(d, 27) + At(d, 28) * 256 + At(d, 29) * Limb)),
             !.has_alpha = Some((At(d, 20) \div 16) % 2 = 1),
             !.has_animation = Some((At(d, 20) \div 2) % 2 = 1),
             !.bit_depth = Some(8)], 29)

\* a faulty webp_vp8x: the alpha and animation bits are taken for each other
webp_vp8x_flags(d, result) ==
    IF Len(d) < 30 THEN Checked(d, result, 15)
    ELSE Checked(d, [result EXCEPT
             !.width = Some(W(At(d, 24) + At(d, 25) * 256 + At(d, 26) * Limb + 1)),
             !.height = Some(W(At(d, 27) + At(d, 28) * 256 + At(d, 29) * Limb + 1)),
             !.has_alpha = Some((At(d, 20) \div 2) % 2 = 1),
             !.has_animation = Some((At(d, 20) \div 16) % 2 = 1),
             !.bit_depth = Some(8)], 29)

webp_vp8x(d, result) ==
    IF Len(d) < 30 THEN Checked(d, result, 15)
    ELSE LET flags    == At(d, 20)
             canvas_w == At(d, 24) + At(d, 25) * 256 + At(d, 26) * Limb
             canvas_h == At(d, 27) + At(d, 28) * 256 + At(d, 29) * Limb
         IN  Checked(d, [result EXCEPT !.width = Some(W(canvas_w + 1)),
                                       !.height = Some(W(canvas_h + 1)),
                                       !.has_alpha = Some((flags \div 16) % 2 = 1),
                                       !.has_animation = Some((flags \div 2) % 2 = 1),
                                       !.bit_depth = Some(8)], 29)

\* a faulty webp_vp8: the two reserved high bits are kept in the size
webp_vp8_unmasked(d, result) ==
    IF Len(d) < 30 THEN Checked(d, result, 15)
    ELSE IF At(d, 23) = 157 /\ At(d, 24) = 1 /\ At(d, 25) = 42
         THEN Checked(d, [result EXCEPT
                  !.width = Some(W(U16FromLe(At(d, 26), At(d, 27)))),
                  !.height = Some(W(U16FromLe(At(d, 28), At(d, 29)))),
                  !.has_alpha = Some(FALSE),
                  !.has_animation = Some(FALSE),
                  !.bit_depth = Some(8)], 29)
         ELSE Checked(d, result,
                      IF At(d, 23) # 157 THEN 23 ELSE IF At(d, 24) # 1 THEN 24 ELSE 25)

webp_vp8(d, result) ==
    IF Len(d) < 30 THEN Checked(d, result, 15)
    ELSE IF Len(d) >= 30 /\ At(d, 23) = 157 /\ At(d, 24) = 1 /\ At(d, 25) = 42
         THEN LET width  == U16FromLe(At(d, 26), At(d, 27)) % (64 * 256)
                  height == U16FromLe(At(d, 28), At(d, 29)) % (64 * 256)
              IN  Checked(d, [result EXCEPT !.width = Some(W(width)),
                                            !.height = Some(W(height)),
                                            !.has_alpha = Some(FALSE),
                                            !.has_animation = Some(FALSE),
                                            !.bit_depth = Some(8)], 29)
         ELSE Checked(d, result,
                      IF At(d, 23) # 157 THEN 23 ELSE IF At(d, 24) # 1 THEN 24 ELSE 25)

\* a faulty webp_vp8l: the signature byte at offset 20 is not verified
webp_vp8l_any_sig(d, result) ==
    IF Len(d) < 25 THEN Checked(d, result, 15)
    ELSE Checked(d, [result EXCEPT
             !.width = Some(W(Low14(U32FromLe(At(d, 21), At(d, 22), At(d, 23), At(d, 24))) + 1)),
             !.height = Some(W(Next14(U32FromLe(At(d, 21), At(d, 22), At(d, 23), At(d, 24))) + 1)),
             !.has_alpha = Some(TRUE),
             !.has_animation = Some(FALSE),
             !.bit_depth = Some(8)], 24)

webp_vp8l(d, result) ==
    IF Len(d) < 25 THEN Checked(d, result, 15)
    ELSE IF At(d, 20) = 47
         THEN LET bits   == U32FromLe(At(d, 21), At(d, 22), At(d, 23), At(d, 24))
                  width  == Low14(bits) + 1
                  height == Next14(bits) + 1
              IN  Checked(d, [result EXCEPT !.width = Some(W(width)),
                                            !.height = Some(W(height)),
                                            !.has_alpha = Some(TRUE),
                                            !.has_animation = Some(FALSE),
                                            !.bit_depth = Some(8)], 24)
         ELSE Checked(d, result, 20)

probe_webp(d) ==
    LET n      == Len(d)
        result == ProbeResult("WebP", W(Min(n, 30)))
    IN  IF n < 16 THEN Checked(d, result, -1)
        ELSE LET chunk == Slice(d, 12, 16)
             IN  IF chunk = TagVP8X THEN webp_vp8x(d, result)
                 ELSE IF chunk = TagVP8 THEN webp_vp8(d, result)
                 ELSE IF chunk = TagVP8L THEN webp_vp8l(d, result)
                 ELSE Checked(d, result, 15)

(***************************************************************************)
(* probe_jpeg: the marker scan.  pos is the scan position, rd the highest  *)
(* index read so far.                                                      *)
(***************************************************************************)
\* a faulty is_standalone: end-of-image is skipped like a restart marker
is_standalone_eoi(marker) == marker \in {0, 1, 217} \/ (208 <= marker /\ marker <= 215)

is_standalone(marker) == marker = 0 \/ marker = 1 \/ (208 <= marker /\ marker <= 215)
\* a faulty is_sof: DHT (C4), JPG (C8) and DAC (CC) are taken for frame headers
is_sof_any(marker) == 192 <= marker /\ marker <= 207
is_sof(marker) == marker \in {192, 193, 194, 195, 197, 198, 199, 201, 202, 203, 205, 206, 207}

\* a faulty bound: the seven bytes that are read are taken to be enough
sof_fits_read(pos, n) == pos + 6 < n
\* if pos + 7 < data.len(): length(2) + precision(1) + height(2) + width(2) +
\* components(1) lie within the input
sof_fits(pos, n) == pos + 7 < n

\* while pos + 1 < data.len() && data[pos + 1] == 0xFF { pos += 1 }
RECURSIVE skip_fill(_, _)
skip_fill(d, pos) ==
    IF pos + 1 < Len(d) /\ At(d, pos + 1) = 255 THEN skip_fill(d, pos + 1) ELSE pos

RECURSIVE jpeg_scan(_, _, _, _)
jpeg_scan(d, result, pos, rd) ==
    LET n == Len(d)
        stop(p, r) == Checked(d, [result EXCEPT !.bytes_examined = W(Min(p, n))], r)
    IN  IF ~(pos + 1 < n) THEN stop(pos, rd)
        ELSE IF At(d, pos) # 255 THEN stop(pos, Max(rd, pos))
        ELSE LET p1 == skip_fill(d, pos)
                 r1 == Max(Max(rd, pos), IF p1 + 1 < n THEN p1 + 1 ELSE p1)
             IN  IF p1 + 1 >= n THEN stop(p1, r1)
                 ELSE LET marker == At(d, p1 + 1)
                          p      == p1 + 2
                      IN  IF is_standalone(marker) THEN jpeg_scan(d, result, p, r1)
                          ELSE IF marker = 218 THEN stop(p, r1)
                          ELSE IF marker = 217 THEN stop(p, r1)
                          ELSE IF p + 2 > n THEN stop(p, r1)
                          ELSE LET seg_len == U16FromBe(At(d, p), At(d, p + 1))
                                   r2      == Max(r1, p + 1)
                               IN  IF is_sof(marker)
                                   THEN IF sof_fits(p, n)
                                        THEN LET precision == At(d, p + 2)
                                                 height    == U16FromBe(At(d, p + 3), At(d, p + 4))
                                                 width     == U16FromBe(At(d, p + 5), At(d, p + 6))
                                             IN  Checked(d, [result EXCEPT
                                                        !.width = Some(W(width)),
                                                        !.height = Some(W(height)),
                                                        !.bit_depth = Some(precision),
                                                        !.bytes_examined = W(p + 8)],
                                                     Max(r2, p + 6))
                                        ELSE stop(p, r2)
                                   ELSE IF seg_len < 2 THEN stop(p, r2)
                                   ELSE jpeg_scan(d, result, p + seg_len, r2)

\* a faulty probe_jpeg: an input shorter than 4 bytes gets a bare result
probe_jpeg_bare(d) ==
    IF Len(d) < 4 THEN Checked(d, ProbeResult("Jpeg", W(Len(d))), -1)
    ELSE jpeg_scan(d, [ProbeResult("Jpeg", W(0)) EXCEPT !.has_alpha = Some(FALSE),
                                                         !.has_animation = Some(FALSE),
                                                         !.frame_count = Some(1)], 2, -1)

probe_jpeg(d) ==
    LET n      == Len(d)
        result == [ProbeResult("Jpeg", W(0)) EXCEPT !.has_alpha = Some(FALSE),
                                                     !.has_animation = Some(FALSE),
                                                     !.frame_count = Some(1)]
    IN  IF n < 4 THEN Checked(d, [result EXCEPT !.bytes_examined = W(n)], -1)
        ELSE jpeg_scan(d, result, 2, -1)

(***************************************************************************)
(* The marker loop of probe_jpeg, one iteration at a time.  Step(st, pos)  *)
(* is what an iteration does: "continue" at the new pos, or leave the loop *)
(* by "break" or by "return" with pos as it then is.                       *)
(***************************************************************************)
Step(st, pos) == [st |-> st, pos |-> pos]

\* a faulty jpeg_body: a standalone marker is passed over before pos has
\* moved past the marker bytes
jpeg_body_stay(d, pos) ==
    IF pos + 1 >= Len(d) THEN Step("break", pos)
    ELSE IF is_standalone(At(d, pos + 1)) THEN Step("continue", pos)
    ELSE IF At(d, pos + 1) = 218 \/ At(d, pos + 1) = 217 THEN Step("break", pos + 2)
    ELSE IF pos + 2 + 2 > Len(d) THEN Step("break", pos + 2)
    ELSE IF is_sof(At(d, pos + 1))
         THEN IF sof_fits(pos + 2, Len(d)) THEN Step("return", pos + 2)
              ELSE Step("break", pos + 2)
    ELSE IF U16FromBe(At(d, pos + 2), At(d, pos + 3)) < 2 THEN Step("break", pos + 2)
    ELSE Step("continue", pos + 2 + U16FromBe(At(d, pos + 2), At(d, pos + 3)))

\* the loop body from the end of the fill-byte loop on, at pos
jpeg_body(d, pos) ==
    IF pos + 1 >= Len(d) THEN Step("break", pos)
    ELSE IF is_standalone(At(d, pos + 1)) THEN Step("continue", pos + 2)
    ELSE IF At(d, pos + 1) = 218 \/ At(d, pos + 1) = 217 THEN Step("break", pos + 2)
    ELSE IF pos + 2 + 2 > Len(d) THEN Step("break", pos + 2)
    ELSE IF is_sof(At(d, pos + 1))
         THEN IF sof_fits(pos + 2, Len(d)) THEN Step("return", pos + 2)
              ELSE Step("break", pos + 2)
    ELSE IF U16FromBe(At(d, pos + 2), At(d, pos + 3)) < 2 THEN Step("break", pos + 2)
    ELSE Step("continue", pos + 2 + U16FromBe(At(d, pos + 2), At(d, pos + 3)))

(***************************************************************************)
(* find_box: the ISOBMFF box walker over the slice d.  A result is         *)
(*   st = "found": the content is d[lo .. hi) and end is the box's end     *)
(*                 offset (a usize, possibly past the slice);              *)
(*   st = "none":  the function returned None;                             *)
(*   st = "panic": an overflowing sum under overflow checks, or an index   *)
(*                 past the slice.                                         *)
(* b is the build: usize_bits (32 or 64) and overflow_checks.              *)
(***************************************************************************)
Walked(st, lo, hi, end, rd) == [st |-> st, lo |-> lo, hi |-> hi, end |-> end, rd |-> rd]

RECURSIVE find_box_from(_, _, _, _, _)
find_box_from(d, box_type, pos, rd, b) ==
    LET n    == Len(d)
        p8   == UsizeAdd(pos, W(8), b)
        none == Walked("none", 0, 0, W(0), rd)
    IN  IF p8.panic THEN Walked("panic", 0, 0, W(0), rd)
        ELSE IF ~WLe(p8.v, W(n)) THEN none
        ELSE IF ~WLt(pos, W(n)) \/ ToInt(pos) + 7 >= n
             THEN Walked("panic", 0, 0, W(0), rd)
        ELSE LET p     == ToInt(pos)
                 size  == U32FromBe(At(d, p), At(d, p + 1), At(d, p + 2), At(d, p + 3))
                 btype == Slice(d, p + 4, p + 8)
                 ext   == size = W(1)
                 r8    == Max(rd, p + 7)
             IN  IF ext /\ p + 16 > n THEN Walked("none", 0, 0, W(0), r8)
                 ELSE LET ext_size == U64FromBe(At(d, p + 8), At(d, p + 9), At(d, p + 10),
                                                At(d, p + 11), At(d, p + 12), At(d, p + 13),
                                                At(d, p + 14), At(d, p + 15))
                          header_size == IF ext THEN 16 ELSE 8
                          box_size == IF ext THEN AsUsize(ext_size, b)
                                      ELSE IF size = W(0) THEN W(n - p)
                                      ELSE AsUsize(size, b)
                          r16 == IF ext THEN Max(rd, p + 15) ELSE r8
                          content_start == p + header_size
                          box_end == UsizeAdd(pos, box_size, b)
                      IN  IF WLt(box_size, W(header_size)) THEN Walked("none", 0, 0, W(0), r16)
                          ELSE IF box_end.panic THEN Walked("panic", 0, 0, W(0), r16)
                          ELSE IF btype = box_type
                               THEN LET content_end == IF WLt(box_end.v, W(n))
                                                       THEN ToInt(box_end.v) ELSE n
                                    IN  IF content_start <= content_end
                                        THEN Walked("found", content_start, content_end,
                                                    box_end.v, r16)
                                        ELSE Walked("none", 0, 0, W(0), r16)
                          ELSE IF WLe(box_end.v, pos) THEN Walked("none", 0, 0, W(0), r16)
                          ELSE find_box_from(d, box_type, box_end.v, r16, b)

find_box(d, box_type, b) == find_box_from(d, box_type, W(0), -1, b)

(***************************************************************************)
(* The loop of find_box, one iteration at a time.                          *)
(***************************************************************************)
\* the element of a one-element set: {f(x) : x \in {e}} computes e once
Only(S) == CHOOSE x \in S : TRUE

\* (header_size, box_size) of a box with the 32-bit size field `size` and
\* the 64-bit field ext_size, at offset p, and the size as declared
box_sizes(d, p, size, ext_size, b) ==
    IF size = W(1) THEN [header |-> 16, declared |-> ext_size, size |-> AsUsize(ext_size, b)]
    ELSE IF size = W(0) THEN [header |-> 8, declared |-> W(Len(d) - p), size |-> W(Len(d) - p)]
    ELSE [header |-> 8, declared |-> size, size |-> AsUsize(size, b)]
box_size(d, p, b) ==
    Only({box_sizes(d, p, size, ext_size, b) :
             size \in {U32FromBe(At(d, p), At(d, p + 1), At(d, p + 2), At(d, p + 3))},
             ext_size \in {U64FromBe(At(d, p + 8), At(d, p + 9), At(d, p + 10),
                                     At(d, p + 11), At(d, p + 12), At(d, p + 13),
                                     At(d, p + 14), At(d, p + 15))}})

\* a faulty box_tail: the non-advancement check is missing
box_tail_unchecked(d, box_type, pos, p, box, box_end) ==
    IF box_end.panic THEN Step("panic", pos)
    ELSE IF Slice(d, p + 4, p + 8) = box_type
         THEN IF WLe(W(p + box.header),
                     IF WLt(box_end.v, W(Len(d))) THEN box_end.v ELSE W(Len(d)))
              THEN Step("found", pos)
              ELSE Step("none", pos)
    ELSE Step("next", box_end.v)

\* lines 481-495 for the box at p, which ends at box_end = pos + box_size
box_tail(d, box_type, pos, p, box, box_end) ==
    IF box_end.panic THEN Step("panic", pos)
    ELSE IF Slice(d, p + 4, p + 8) = box_type
         THEN IF WLe(W(p + box.header),
                     IF WLt(box_end.v, W(Len(d))) THEN box_end.v ELSE W(Len(d)))
              THEN Step("found", pos)
              ELSE Step("none", pos)
    ELSE IF WLe(box_end.v, pos) THEN Step("stuck", box_end.v)
    ELSE Step("next", box_end.v)

\* lines 454-482 for the box at p, whose header gives the sizes `box`
box_body(d, box_type, pos, p, box, b) ==
    IF box.header = 16 /\ p + 16 > Len(d) THEN Step("none", pos)
    ELSE IF WLt(box.size, W(box.header)) THEN Step("none", pos)
    ELSE Only({box_tail(d, box_type, pos, p, box, box_end) :
                  box_end \in {UsizeAdd(pos, box.size, b)}})

\* one iteration at pos: the loop ends ("end"), the function returns Some
\* ("found") or None ("none", and "stuck" for the None of the
\* non-advancement check, with the box's end offset as pos), it panics, or
\* the walk goes on ("next") at the box's end offset
box_head(d, box_type, pos, p8, b) ==
    IF p8.panic THEN Step("panic", pos)
    ELSE IF ~WLe(p8.v, W(Len(d))) THEN Step("end", pos)
    ELSE IF ~WLt(pos, W(Len(d))) \/ ToInt(pos) + 7 >= Len(d) THEN Step("panic", pos)
    ELSE Only({box_body(d, box_type, pos, ToInt(pos), box, b) :
                  box \in {box_size(d, ToInt(pos), b)}})
box_iter(d, box_type, pos, b) ==
    Only({box_head(d, box_type, pos, p8, b) : p8 \in {UsizeAdd(pos, W(8), b)}})

\* a result of find_box on the sub-slice d[lo ..]: its content range and
\* reads as offsets into d, rd the highest index read before the call
in_slice(w, lo, rd) ==
    [w EXCEPT !.lo = lo + w.lo, !.hi = lo + w.hi,
              !.rd = IF w.rd < 0 THEN rd ELSE Max(rd, lo + w.rd)]

\* find_box(&data[lo..hi], box_type)
find_in(d, lo, hi, box_type, rd, b) ==
    in_slice(find_box(Slice(d, lo, hi), box_type, b), lo, rd)

(***************************************************************************)
(* probe_avif: meta -> (4 bytes version/flags) -> iprp -> ipco -> ispe.    *)
(* Each step takes the box the walker returned for it.                     *)
(***************************************************************************)
\* a faulty avif_ispe: the width alone is enough, a height that is cut off
\* is reported as 0
avif_ispe_partial(d, result, ispe) ==
    IF ispe.st = "panic" THEN Panicked(ispe.rd)
    ELSE IF ispe.st = "found" /\ ispe.hi - ispe.lo >= 8
         THEN Ok([result EXCEPT
                     !.width = Some(U32FromBe(At(d, ispe.lo + 4), At(d, ispe.lo + 5),
                                              At(d, ispe.lo + 6), At(d, ispe.lo + 7))),
                     !.height = IF ispe.hi - ispe.lo >= 12
                                THEN Some(U32FromBe(At(d, ispe.lo + 8), At(d, ispe.lo + 9),
                                                    At(d, ispe.lo + 10), At(d, ispe.lo + 11)))
                                ELSE Some(W(0))],
                 Max(ispe.rd, ispe.hi - 1))
    ELSE Ok(result, ispe.rd)

\* ispe content: version/flags(4) + width(4) + height(4)
avif_ispe(d, result, ispe) ==
    IF ispe.st = "panic" THEN Panicked(ispe.rd)
    ELSE IF ispe.st = "found" /\ ispe.hi - ispe.lo >= 12
         THEN IF ispe.lo + 11 >= ispe.hi THEN Panicked(Max(ispe.rd, ispe.lo + 11))
              ELSE Ok([result EXCEPT
                          !.width = Some(U32FromBe(At(d, ispe.lo + 4), At(d, ispe.lo + 5),
                                                   At(d, ispe.lo + 6), At(d, ispe.lo + 7))),
                          !.height = Some(U32FromBe(At(d, ispe.lo + 8), At(d, ispe.lo + 9),
                                                    At(d, ispe.lo + 10), At(d, ispe.lo + 11)))],
                      Max(ispe.rd, ispe.lo + 11))
    ELSE Ok(result, ispe.rd)

avif_ipco(d, result, ipco, b) ==
    IF ipco.st = "panic" THEN Panicked(ipco.rd)
    ELSE IF ipco.st = "found"
         THEN avif_ispe(d, result, find_in(d, ipco.lo, ipco.hi, TagIspe, ipco.rd, b))
    ELSE Ok(result, ipco.rd)

avif_iprp(d, result, iprp, b) ==
    IF iprp.st = "panic" THEN Panicked(iprp.rd)
    ELSE IF iprp.st = "found"
         THEN avif_ipco(d, result, find_in(d, iprp.lo, iprp.hi, TagIpco, iprp.rd, b), b)
    ELSE Ok(result, iprp.rd)

avif_meta(d, result, meta, b) ==
    IF meta.st = "panic" THEN Panicked(meta.rd)
    ELSE IF meta.st = "found"
         THEN IF meta.hi - meta.lo >= 4
              THEN avif_iprp(d, [result EXCEPT !.bytes_examined = meta.end],
                             find_in(d, meta.lo + 4, meta.hi, TagIprp, meta.rd, b), b)
              ELSE Ok([result EXCEPT !.bytes_examined = meta.end], meta.rd)
    ELSE Ok([result EXCEPT !.bytes_examined = W(Len(d))], meta.rd)

probe_avif(d, b) == avif_meta(d, ProbeResult("Avif", W(0)), find_box(d, TagMeta, b), b)

(***************************************************************************)
(* probe_jxl.  With the jxl-decode feature the parser is the external      *)
(* decoder's probe (zenjxl::probe), whose answer is the input `ext`:       *)
(* None for Err(_), Some(info) for Ok(info).                               *)
(***************************************************************************)


probe_jxl_with_crate(d, ext) ==
    LET result == ProbeResult("Jxl", W(Len(d)))
    IN  IF IsSome(ext)
        THEN Ok([result EXCEPT !.width = Some(Unwrap(ext).width),
                               !.height = Some(Unwrap(ext).height),
                               !.has_alpha = Some(Unwrap(ext).has_alpha),
                               !.has_animation = Some(Unwrap(ext).has_animation),
                               !.bit_depth = Unwrap(ext).bit_depth], Len(d) - 1)
        ELSE Ok(result, Len(d) - 1)

\* a faulty probe_jxl: without the decoder it guesses a frame count of 1 at
\* the default bit depth
probe_jxl_guess(d, b, ext) ==
    IF "jxl-decode" \in b.features THEN probe_jxl_with_crate(d, ext)
    ELSE Ok([ProbeResult("Jxl", W(Min(Len(d), 12))) EXCEPT !.frame_count = Some(1),
                                                        !.bit_depth = Some(16)], -1)

probe_jxl(d, b, ext) ==
    IF "jxl-decode" \in b.features THEN probe_jxl_with_crate(d, ext)
    ELSE Ok(ProbeResult("Jxl", W(Min(Len(d), 12))), -1)

(***************************************************************************)
(* ProbeResult::for_format                                                 *)
(***************************************************************************)
for_format(d, format, b, ext) ==
    CASE format = "Png"  -> probe_png(d)
      [] format = "Gif"  -> probe_gif(d)
      [] format = "WebP" -> probe_webp(d)
      [] format = "Jpeg" -> probe_jpeg(d)
      [] format = "Avif" -> probe_avif(d, b)
      [] format = "Jxl"  -> probe_jxl(d, b, ext)
      [] OTHER           -> Ok(ProbeResult(format, W(0)), -1)

(***************************************************************************)
(* ImageFormat::detect                                                     *)
(***************************************************************************)
\* a faulty detect: the AVIF signature is tried before the JPEG one
detect_avif_first(d) ==
    LET n == Len(d)
    IN  IF n >= 12 /\ Slice(d, 4, 8) = TagFtyp
           /\ (Slice(d, 8, 12) = TagAvif \/ Slice(d, 8, 12) = TagAvis)
        THEN Some("Avif")
        ELSE IF n >= 3 /\ At(d, 0) = 255 /\ At(d, 1) = 216 /\ At(d, 2) = 255
        THEN Some("Jpeg")
        ELSE IF n >= 8 /\ Slice(d, 0, 8) = <<137, 80, 78, 71, 13, 10, 26, 10>>
        THEN Some("Png")
        ELSE IF n >= 6 /\ Slice(d, 0, 4) = <<71, 73, 70, 56>>
                /\ (At(d, 4) = 55 \/ At(d, 4) = 57) /\ At(d, 5) = 97
        THEN Some("Gif")
        ELSE IF n >= 12 /\ Slice(d, 0, 4) = <<82, 73, 70, 70>>
                /\ Slice(d, 8, 12) = <<87, 69, 66, 80>>
        THEN Some("WebP")
        ELSE IF n >= 2 /\ At(d, 0) = 255 /\ At(d, 1) = 10
        THEN Some("Jxl")
        ELSE IF n >= 12 /\ Slice(d, 0, 12) = <<0, 0, 0, 12, 74, 88, 76, 32, 13, 10, 135, 10>>
        THEN Some("Jxl")
        ELSE None

detect(d) ==
    LET n == Len(d)
    IN  IF n >= 3 /\ At(d, 0) = 255 /\ At(d, 1) = 216 /\ At(d, 2) = 255
        THEN Some("Jpeg")
        ELSE IF n >= 8 /\ At(d, 0) = 137 /\ At(d, 1) = 80 /\ At(d, 2) = 78 /\ At(d, 3) = 71
                /\ At(d, 4) = 13 /\ At(d, 5) = 10 /\ At(d, 6) = 26 /\ At(d, 7) = 10
        THEN Some("Png")
        ELSE IF n >= 6 /\ At(d, 0) = 71 /\ At(d, 1) = 73 /\ At(d, 2) = 70 /\ At(d, 3) = 56
                /\ (At(d, 4) = 55 \/ At(d, 4) = 57) /\ At(d, 5) = 97
        THEN Some("Gif")
        ELSE IF n >= 12 /\ At(d, 0) = 82 /\ At(d, 1) = 73 /\ At(d, 2) = 70 /\ At(d, 3) = 70
                /\ At(d, 8) = 87 /\ At(d, 9) = 69 /\ At(d, 10) = 66 /\ At(d, 11) = 80
        THEN Some("WebP")
        ELSE IF n >= 12 /\ Slice(d, 4, 8) = TagFtyp
                /\ (Slice(d, 8, 12) = TagAvif \/ Slice(d, 8, 12) = TagAvis)
        THEN Some("Avif")
        ELSE IF n >= 2 /\ At(d, 0) = 255 /\ At(d, 1) = 10
        THEN Some("Jxl")
        ELSE IF n >= 12 /\ Slice(d, 0, 4) = <<0, 0, 0, 12>>
                /\ Slice(d, 4, 8) = <<74, 88, 76, 32>>
                /\ Slice(d, 8, 12) = <<13, 10, 135, 10>>
        THEN Some("Jxl")
        ELSE None

(***************************************************************************)
(* ImageFormat::min_probe_bytes                                            *)
(***************************************************************************)
min_probe_bytes(format) ==
    CASE format = "Png"  -> 33
      [] format = "Gif"  -> 13
      [] format = "WebP" -> 30
      [] format = "Jpeg" -> 2048
      [] format = "Avif" -> 512
      [] format = "Jxl"  -> 256

(***************************************************************************)
(* CodecRegistry: decode_enabled is a set of formats; a build compiles in  *)
(* a set of cargo features.                                                *)
(***************************************************************************)
DecodeFeature(format) ==
    CASE format = "Jpeg" -> "jpeg"
      [] format = "WebP" -> "webp"
      [] format = "Gif"  -> "gif"
      [] format = "Png"  -> "png"
      [] format = "Avif" -> "avif-decode"
      [] format = "Jxl"  -> "jxl-decode"

\* FormatSet::all_compiled_decode
all_compiled_decode(b) == {f \in Formats : DecodeFeature(f) \in b.features}
\* CodecRegistry::all, CodecRegistry::none, CodecRegistry::with_decode
registry_all(b) == [decode_enabled |-> all_compiled_decode(b)]
registry_none == [decode_enabled |-> {}]
with_decode(registry, format, enabled) ==
    [registry EXCEPT !.decode_enabled = IF enabled THEN @ \cup {format} ELSE @ \ {format}]
\* CodecRegistry::can_decode
can_decode(registry, format, b) ==
    IF format \notin registry.decode_enabled THEN FALSE
    ELSE DecodeFeature(format) \in b.features

(***************************************************************************)
(* info.rs: probe, probe_with_registry, probe_format.  A Result is         *)
(* "ok" with the ProbeResult, "err" with the CodecError, or "panic".       *)
(***************************************************************************)
Err(e, rd) == [st |-> "err", r |-> e, rd |-> rd]
UnrecognizedFormat == <<"UnrecognizedFormat">>
DisabledFormat(format) == <<"DisabledFormat", format>>

probe_format(d, format, b, ext) == for_format(d, format, b, ext)

probe(d, b, ext) ==
    LET format == detect(d)
    IN  IF format = None THEN Err(UnrecognizedFormat, -1)
        ELSE for_format(d, Unwrap(format), b, ext)

\* a faulty probe_with_registry: the registry is never consulted
probe_ignoring_registry(d, registry, b, ext) == probe(d, b, ext)

probe_with_registry(d, registry, b, ext) ==
    LET format == detect(d)
    IN  IF format = None THEN Err(UnrecognizedFormat, -1)
        ELSE IF ~can_decode(registry, Unwrap(format), b)
             THEN Err(DisabledFormat(Unwrap(format)), -1)
        ELSE for_format(d, Unwrap(format), b, ext)

(***************************************************************************)
(* ProbeResult::into_image_info                                            *)
(***************************************************************************)
unwrap_or(o, dflt) == IF IsSome(o) THEN Unwrap(o) ELSE dflt

\* a faulty into_image_info: one dimension is enough, the other defaults to 0
into_image_info_either(self) ==
    IF self.width = None /\ self.height = None THEN None
    ELSE Some([width |-> unwrap_or(self.width, W(0)),
               height |-> unwrap_or(self.height, W(0)),
               format |-> self.format,
               has_alpha |-> unwrap_or(self.has_alpha, FALSE),
               has_animation |-> unwrap_or(self.has_animation, FALSE),
               frame_count |-> self.frame_count,
               icc_profile |-> None, exif |-> None, xmp |-> None])

into_image_info(self) ==
    IF self.width = None THEN None
    ELSE IF self.height = None THEN None
    ELSE Some([width |-> Unwrap(self.width),
               height |-> Unwrap(self.height),
               format |-> self.format,
               has_alpha |-> unwrap_or(self.has_alpha, FALSE),
               has_animation |-> unwrap_or(self.has_animation, FALSE),
               frame_count |-> self.frame_count,
               icc_profile |-> None, exif |-> None, xmp |-> None])

(***************************************************************************)
(* Inputs.  A byte sequence is assembled from pieces the way the tests of  *)
(* probe.rs and format.rs assemble theirs, then possibly cut short.  A     *)
(* piece is its bytes b, the stage it leads to, whether a well-formed file *)
(* may hold it at this place (ok), the dimensions it encodes (dims), and   *)
(* whether it may repeat (rep, bounded by MaxParts).                       *)
(***************************************************************************)
MaxParts == 2    \* repeatable pieces (segments, boxes) per input
MaxDrop == 6     \* bytes cut off the end of an assembled input
MdatLen == 440   \* payload bytes of the AVIF mdat box
JxlLen == 260    \* bytes after the JPEG XL codestream signature
FreeLen == 500   \* payload bytes of a large AVIF free box ahead of meta

Piece(b, to, ok, dims, rep) == [b |-> b, to |-> to, ok |-> ok, dims |-> dims, rep |-> rep]
Dims(w, h) == Some(<<W(w), W(h)>>)
Pad(k) == [i \in 1..k |-> 0]

Be16(n) == <<n \div 256, n % 256>>
Le16(n) == <<n % 256, n \div 256>>
Le24(n) == <<n % 256, (n \div 256) % 256, n \div Limb>>
Be32(n) == <<n \div (256 * Limb), (n \div Limb) % 256, (n \div 256) % 256, n % 256>>

\* ---- PNG (probe_png_full_header, probe_png_rgb_no_alpha, probe_png_16bit)
PngSig == <<137, 80, 78, 71, 13, 10, 26, 10>>
PngChunk(tag, content) == Be32(Len(content)) \o tag \o content \o <<0, 0, 0, 0>>
PngIHDR(w4, h4, depth, ct) == PngChunk(TagIHDR, w4 \o h4 \o <<depth, ct, 0, 0, 0>>)
PngPieces(stage) ==
    CASE stage = "start" -> {Piece(PngSig, "sig", TRUE, None, FALSE)}
      [] stage = "sig" ->
           {Piece(PngIHDR(Be32(64), Be32(48), 8, 2), "dims", TRUE, Dims(64, 48), FALSE),
            Piece(PngIHDR(Be32(100), Be32(50), 8, 6), "dims", TRUE, Dims(100, 50), FALSE),
            Piece(PngIHDR(Be32(1920), Be32(1080), 16, 6), "dims", TRUE, Dims(1920, 1080), FALSE),
            Piece(PngIHDR(Be32(32), Be32(24), 8, 4), "dims", TRUE, Dims(32, 24), FALSE),
            Piece(PngIHDR(<<255, 0, 0, 1>>, <<128, 0, 0, 0>>, 8, 0), "dims", FALSE, None, FALSE),
            Piece(PngChunk(<<116, 69, 88, 116>>, <<65>>), "sig", FALSE, None, TRUE)}
      [] stage = "dims" ->
           {Piece(PngChunk(<<116, 69, 88, 116>>, <<65>>), "dims", TRUE, None, TRUE),
            Piece(PngChunk(<<73, 68, 65, 84>>, <<120, 1>>), "body", TRUE, None, FALSE)}
      [] stage = "body" -> {Piece(PngChunk(<<73, 69, 78, 68>>, <<>>), "done", TRUE, None, FALSE)}
      [] OTHER -> {}

\* ---- GIF (probe_gif_full_header, probe_real_gif)
GifLsd(w, h) == Le16(w) \o Le16(h) \o <<0, 0, 0>>
GifPieces(stage) ==
    CASE stage = "start" ->
           {Piece(<<71, 73, 70, 56, 57, 97>>, "sig", TRUE, None, FALSE),
            Piece(<<71, 73, 70, 56, 55, 97>>, "sig", TRUE, None, FALSE)}
      [] stage = "sig" ->
           {Piece(GifLsd(320, 240), "dims", TRUE, Dims(320, 240), FALSE),
            Piece(GifLsd(16, 12), "dims", TRUE, Dims(16, 12), FALSE),
            Piece(GifLsd(65535, 1), "dims", TRUE, Dims(65535, 1), FALSE)}
      [] stage = "dims" ->
           {Piece(<<44, 0, 0, 0, 0, 1, 0, 1, 0, 0, 2, 2, 76, 1, 0, 59>>, "done", TRUE, None, FALSE)}
      [] OTHER -> {}

\* ---- WebP (probe_webp_vp8x, probe_webp_vp8_lossy, probe_webp_vp8l)
WebpVp8x(flags, w, h) ==
    TagVP8X \o <<10, 0, 0, 0>> \o <<flags, 0, 0, 0>> \o Le24(w - 1) \o Le24(h - 1)
WebpVp8(code, w2, h2) == TagVP8 \o <<14, 0, 0, 0>> \o <<16, 2, 0>> \o code \o w2 \o h2 \o Pad(4)
WebpVp8l(sig, bits4) == TagVP8L \o <<11, 0, 0, 0>> \o <<sig>> \o bits4 \o Pad(6)
WebpPieces(stage) ==
    CASE stage = "start" ->
           {Piece(<<82, 73, 70, 70, 0, 0, 0, 0, 87, 69, 66, 80>>, "sig", TRUE, None, FALSE)}
      [] stage = "sig" ->
           {Piece(WebpVp8x(18, 640, 480), "anim", TRUE, Dims(640, 480), FALSE),
            Piece(WebpVp8x(16, 640, 480), "vp8x", TRUE, Dims(640, 480), FALSE),
            Piece(WebpVp8x(0, 1, 1), "vp8x", TRUE, Dims(1, 1), FALSE),
            Piece(WebpVp8x(255, 256 * Limb, 256 * Limb), "vp8x", FALSE, None, FALSE),
            Piece(WebpVp8(<<157, 1, 42>>, Le16(800), Le16(600)), "done", TRUE, Dims(800, 600), FALSE),
            Piece(WebpVp8(<<157, 1, 42>>, <<64, 64>>, <<48, 192>>), "done", TRUE, Dims(64, 48), FALSE),
            Piece(WebpVp8(<<157, 1, 43>>, Le16(800), Le16(600)), "done", FALSE, None, FALSE),
            Piece(WebpVp8(<<157, 2, 42>>, Le16(800), Le16(600)), "done", FALSE, None, FALSE),
            Piece(WebpVp8l(47, <<254, 128, 31, 0>>), "done", TRUE, Dims(255, 127), FALSE),
            Piece(WebpVp8l(47, <<255, 255, 255, 15>>), "done", TRUE, Dims(64 * 256, 64 * 256), FALSE),
            Piece(WebpVp8l(47, <<63, 192, 11, 240>>), "done", FALSE, None, FALSE),
            Piece(WebpVp8l(46, <<254, 128, 31, 0>>), "done", FALSE, None, FALSE),
            Piece(TagVP8L \o <<5, 0, 0, 0>> \o <<47, 254, 128, 31, 0>>, "done", FALSE, None, FALSE),
            Piece(<<73, 67, 67, 80>> \o <<2, 0, 0, 0>> \o <<1, 2>>, "done", FALSE, None, FALSE)}
      [] stage = "vp8x" ->
           {Piece(WebpVp8(<<157, 1, 42>>, Le16(640), Le16(480)), "done", TRUE, None, FALSE)}
      [] stage = "anim" ->
           {Piece(<<65, 78, 73, 77>> \o <<6, 0, 0, 0>> \o Pad(6), "done", TRUE, None, FALSE)}
      [] OTHER -> {}

\* ---- JPEG (probe_jpeg_sof, probe_jpeg_truncated_before_sof)
JpegSeg(marker, payload) == <<255, marker>> \o Be16(2 + Len(payload)) \o payload
JpegSof(marker, precision, h, w) ==
    JpegSeg(marker, <<precision>> \o Be16(h) \o Be16(w) \o <<1, 1, 17, 0>>)
JpegSos == JpegSeg(218, <<1, 1, 0, 0, 63, 0>>)
JpegFrames(to, ok) ==
    {Piece(JpegSof(192, 8, 480, 640), to, ok, IF ok THEN Dims(640, 480) ELSE None, FALSE),
     Piece(JpegSof(194, 8, 48, 64), to, ok, IF ok THEN Dims(64, 48) ELSE None, FALSE),
     Piece(JpegSof(207, 12, 65535, 65535), to, ok, IF ok THEN Dims(65535, 65535) ELSE None, FALSE)}
JpegPieces(stage) ==
    CASE stage = "start" -> {Piece(<<255, 216>>, "soi", TRUE, None, FALSE)}
      [] stage = "soi" ->
           {Piece(JpegSeg(224, <<74, 70, 73, 70, 0, 1, 1, 0, 0, 1, 0, 1, 0, 0>>),
                  "soi", TRUE, None, TRUE),
            Piece(JpegSeg(254, <<>>), "soi", TRUE, None, TRUE),
            Piece(JpegSeg(196, <<0, 1, 5, 1, 1, 1, 1, 1>>), "soi", TRUE, None, TRUE),
            Piece(<<255>>, "soi", TRUE, None, TRUE),
            Piece(<<255, 208>>, "soi", FALSE, None, TRUE),
            Piece(<<255, 1>>, "soi", FALSE, None, TRUE),
            Piece(JpegSos \o <<18>>, "stopped", FALSE, None, FALSE),
            Piece(<<255, 217>>, "stopped", FALSE, None, FALSE),
            Piece(<<0>>, "stopped", FALSE, None, FALSE),
            Piece(<<255, 226, 0, 1>>, "short", FALSE, None, FALSE)}
           \cup JpegFrames("frame", TRUE)
      [] stage = "stopped" -> JpegFrames("late", FALSE)
      [] stage = "short" -> JpegFrames("after", FALSE)
      [] stage = "frame" ->
           {Piece(JpegSos \o <<18, 52, 86>> \o <<255, 217>>, "done", TRUE, None, FALSE)}
      [] OTHER -> {}

\* ---- AVIF (probe_avif_ispe, probe_avif_no_meta)
TagFree == <<102, 114, 101, 101>>
TagMdat == <<109, 100, 97, 116>>
TagHdlr == <<104, 100, 108, 114>>
TagPixi == <<112, 105, 120, 105>>
Box(tag, content) == Be32(8 + Len(content)) \o tag \o content
\* a box with the 64-bit size form: size field 1, then the size as 8 bytes
BoxExt(tag, size8, content) == <<0, 0, 0, 1>> \o tag \o size8 \o content
Be64(n) == <<0, 0, 0, 0>> \o Be32(n)
\* the 8 bytes of 2^64 - k, for 1 <= k <= 65535
Be64Neg(k) == <<255, 255, 255, 255, 255, 255>> \o Be16(Limb - k)
Ispe(w, h) == Box(TagIspe, <<0, 0, 0, 0>> \o Be32(w) \o Be32(h))
Chain(ispe) == Box(TagIprp, Box(TagIpco, ispe))
AvifFtyp == Box(TagFtyp, TagAvif \o <<0, 0, 0, 0>> \o TagAvif)
AvifMetas ==
    {Piece(Box(TagMeta, <<0, 0, 0, 0>> \o Chain(Ispe(1920, 1080))),
           "meta", TRUE, Dims(1920, 1080), FALSE),
     Piece(Box(TagMeta, <<0, 0, 0, 0>> \o Box(TagHdlr, Pad(4))
                        \o Box(TagIprp, Box(TagFree, <<>>)
                               \o Box(TagIpco, Box(TagPixi, Pad(4)) \o Ispe(64, 48)))),
           "meta", TRUE, Dims(64, 48), FALSE),
     Piece(BoxExt(TagMeta, Be64(16 + 4 + 36), <<0, 0, 0, 0>> \o Chain(Ispe(64, 48))),
           "meta", TRUE, Dims(64, 48), FALSE),
     Piece(<<0, 0, 0, 0>> \o TagMeta \o <<0, 0, 0, 0>> \o Chain(Ispe(640, 480)),
           "done", TRUE, Dims(640, 480), FALSE),
     Piece(Box(TagMeta, <<0, 0, 0, 0>> \o Box(TagHdlr, Pad(4))), "meta", FALSE, None, FALSE),
     Piece(Box(TagMeta, <<0, 0, 0, 0>> \o Box(TagIprp, Box(TagFree, Pad(4)))),
           "meta", FALSE, None, FALSE),
     Piece(Box(TagMeta, <<0, 0, 0, 0>> \o Chain(Box(TagPixi, Pad(4)))),
           "meta", FALSE, None, FALSE),
     Piece(Box(TagMeta, <<0, 0, 0, 0>> \o Chain(Box(TagIspe, <<0, 0, 0, 0>> \o Be32(64) \o Be16(48)))),
           "meta", FALSE, None, FALSE),
     Piece(Box(TagMeta, <<0, 0>>), "meta", FALSE, None, FALSE),
     Piece(Box(TagMeta, <<0, 0, 0, 0>>
                        \o Box(TagIprp, BoxExt(TagFree, Be64Neg(1), <<>>)
                                        \o Box(TagIpco, Ispe(64, 48)))),
           "meta", FALSE, None, FALSE)}
\* boxes whose declared size is malformed or enormous, at offset at
AvifOdd(at) ==
    {Piece(BoxExt(TagFree, Be64Neg(8 + at), <<>>), "odd", FALSE, None, FALSE),
     Piece(BoxExt(TagFree, Be64Neg(at), <<>>), "odd", FALSE, None, FALSE),
     Piece(BoxExt(TagFree, Be64Neg(1), <<>>), "odd", FALSE, None, FALSE),
     Piece(<<255, 255, 255, 255>> \o TagFree, "odd", FALSE, None, FALSE),
     Piece(BoxExt(TagFree, <<0, 0, 0, 1, 0, 0, 0, 16>>, <<>>), "odd", FALSE, None, FALSE),
     Piece(BoxExt(TagFree, Be64(8), <<>>), "odd", FALSE, None, FALSE),
     Piece(<<0, 0, 0, 4>> \o TagFree, "odd", FALSE, None, FALSE)}
AvifPieces(stage, at) ==
    CASE stage = "start" -> {Piece(AvifFtyp, "top", TRUE, None, FALSE)}
      [] stage = "top" ->
           {Piece(Box(TagFree, <<>>), "top", TRUE, None, TRUE),
            Piece(Box(TagFree, Pad(FreeLen)), "top", TRUE, None, TRUE),
            Piece(BoxExt(TagFree, Be64(16 + 2), <<7, 7>>), "top", TRUE, None, TRUE)}
           \cup AvifMetas \cup AvifOdd(at)
      [] stage = "odd" ->
           {Piece(Box(TagMeta, <<0, 0, 0, 0>> \o Chain(Ispe(1920, 1080))),
                  "late", FALSE, None, FALSE)}
      [] stage = "meta" -> {Piece(Box(TagMdat, Pad(MdatLen)), "done", TRUE, None, FALSE)}
      [] OTHER -> {}

\* ---- JPEG XL: the codestream and the container signatures (detect_jxl_*)
JxlPieces(stage) ==
    CASE stage = "start" ->
           {Piece(<<255, 10>>, "sig", TRUE, None, FALSE),
            Piece(<<0, 0, 0, 12, 74, 88, 76, 32, 13, 10, 135, 10>>, "sig", TRUE, None, FALSE)}
      [] stage = "sig" -> {Piece(Pad(JxlLen), "done", TRUE, Dims(64, 48), FALSE)}
      [] OTHER -> {}

\* ---- Raw words at offsets 0, 4 and 8: signatures, near-signatures, overlaps
RawPieces(stage) ==
    CASE stage = "start" ->
           {Piece(w, "w1", FALSE, None, FALSE) :
              w \in {<<255, 216, 255, 224>>, <<255, 216, 0, 0>>, <<255, 10, 0, 0>>,
                     <<0, 0, 0, 12>>, <<0, 0, 0, 24>>, <<82, 73, 70, 70>>,
                     <<137, 80, 78, 71>>, <<71, 73, 70, 56>>, <<110, 111, 116, 32>>}}
      [] stage = "w1" ->
           {Piece(w, "w2", FALSE, None, FALSE) :
              w \in {TagFtyp, <<74, 88, 76, 32>>, <<13, 10, 26, 10>>, <<13, 10, 26, 11>>,
                     <<57, 97, 0, 0>>, <<55, 97, 0, 0>>, <<56, 97, 0, 0>>, <<0, 0, 0, 0>>}}
      [] stage = "w2" ->
           {Piece(w, "w3", FALSE, None, FALSE) :
              w \in {TagAvif, TagAvis, <<104, 101, 105, 99>>, <<87, 69, 66, 80>>,
                     <<87, 69, 66, 81>>, <<13, 10, 135, 10>>, <<0, 0, 0, 13>>}}
      [] OTHER -> {}

Families == {"Png", "Gif", "WebP", "Jpeg", "Avif", "Jxl", "Raw"}

Pieces(family, stage, at) ==
    CASE family = "Png"  -> PngPieces(stage)
      [] family = "Gif"  -> GifPieces(stage)
      [] family = "WebP" -> WebpPieces(stage)
      [] family = "Jpeg" -> JpegPieces(stage)
      [] family = "Avif" -> AvifPieces(stage, at)
      [] family = "Jxl"  -> JxlPieces(stage)
      [] family = "Raw"  -> RawPieces(stage)

(***************************************************************************)
(* Builds.  A build fixes the width of usize, whether integer overflow is  *)
(* checked (debug) or wraps (release), and the cargo features compiled in. *)
(* A call draws only the build components its code path consults; the      *)
(* others stay at the default.                                             *)
(***************************************************************************)
AllFeatures == {"jpeg", "webp", "gif", "png", "avif-decode", "jxl-decode"}
FeatureSets == {AllFeatures, {"jpeg", "webp", "gif", "png"}, {}}
Build(bits, checks, features) ==
    [usize_bits |-> bits, overflow_checks |-> checks, features |-> features]
Words(format) ==
    IF format = "Avif" THEN {<<bits, checks>> : bits \in {32, 64}, checks \in BOOLEAN}
    ELSE {<<64, FALSE>>}
\* the builds that tell probing `format` apart
BuildsFor(format, features) ==
    {Build(w[1], w[2], fs) : w \in Words(format), fs \in features}

\* what zenjxl::probe answers: Err(_), or Ok(info)
JxlInfo(w, h, alpha, depth) ==
    [width |-> W(w), height |-> W(h), has_alpha |-> alpha, has_animation |-> FALSE,
     bit_depth |-> depth]
Answers(format, b) ==
    IF format = "Jxl" /\ "jxl-decode" \in b.features
    THEN {None, Some(JxlInfo(64, 48, FALSE, Some(8))), Some(JxlInfo(7, 5, TRUE, None))}
    ELSE {None}

\* registries a caller builds with all(), none() and with_decode()
Registries(format, b) ==
    {registry_all(b), registry_none,
     with_decode(registry_all(b), format, FALSE),
     with_decode(registry_none, format, TRUE)}

NoCall == [op |-> "none"]
NoResult == [st |-> "none"]
\* dims_end: the offset at which the piece that carries the dimensions ends
Image(family, stage, ok, dims, dims_end) ==
    [family |-> family, stage |-> stage, ok |-> ok, dims |-> dims, dims_end |-> dims_end]

Init ==
    /\ data = <<>>
    /\ parts = 0
    /\ \E family \in Families : img = Image(family, "start", TRUE, None, 0)
    /\ full = 0
    /\ phase = "build"
    /\ call = NoCall
    /\ res = NoResult
    /\ info = None

\* the file grows by one piece
Grow ==
    /\ phase = "build"
    /\ \E p \in Pieces(img.family, img.stage, Len(data)) :
         /\ p.rep => parts < MaxParts
         /\ data' = data \o p.b
         /\ parts' = IF p.rep THEN parts + 1 ELSE parts
         /\ img' = Image(img.family, p.to, img.ok /\ p.ok,
                         IF IsSome(p.dims) THEN p.dims ELSE img.dims,
                         IF IsSome(p.dims) THEN Len(data) + Len(p.b) ELSE img.dims_end)
         /\ full' = Len(data) + Len(p.b)
    /\ UNCHANGED <<phase, call, res, info>>

\* the caller holds a prefix: a few bytes short of what was assembled
Truncate ==
    /\ phase = "build"
    /\ \E k \in 1..MaxDrop :
         /\ k <= Len(data)
         /\ data' = SubSeq(data, 1, Len(data) - k)
    /\ phase' = "cut"
    /\ UNCHANGED <<parts, img, full, call, res, info>>

\* the caller holds the first min_probe_bytes() bytes of a whole file
TruncateTo ==
    /\ phase = "build"
    /\ img.stage = "done"
    /\ \E f \in Formats :
         /\ min_probe_bytes(f) < Len(data)
         /\ data' = SubSeq(data, 1, min_probe_bytes(f))
    /\ phase' = "cut"
    /\ UNCHANGED <<parts, img, full, call, res, info>>

Callable == phase \in {"build", "cut"}

\* ImageFormat::detect(data)
Detect ==
    /\ Callable
    /\ call' = [op |-> "detect"]
    /\ res' = Ok(detect(data), -1)
    /\ phase' = "probed"
    /\ UNCHANGED <<data, parts, img, full, info>>

\* probe_format(data, format)
ProbeFormat ==
    /\ Callable
    /\ \E format \in Formats :
       \E b \in BuildsFor(format, IF format = "Jxl" THEN {AllFeatures, {}} ELSE {AllFeatures}) :
       \E ext \in Answers(format, b) :
         /\ call' = [op |-> "probe_format", format |-> format, b |-> b, ext |-> ext]
         /\ res' = probe_format(data, format, b, ext)
    /\ phase' = "probed"
    /\ UNCHANGED <<data, parts, img, full, info>>

Detected(d) == IF detect(d) = None THEN "Jpeg" ELSE Unwrap(detect(d))

\* probe(data)
Probe ==
    /\ Callable
    /\ \E b \in BuildsFor(Detected(data),
                          IF Detected(data) = "Jxl" THEN {AllFeatures, {}} ELSE {AllFeatures}) :
       \E ext \in Answers(Detected(data), b) :
         /\ call' = [op |-> "probe", b |-> b, ext |-> ext]
         /\ res' = probe(data, b, ext)
    /\ phase' = "probed"
    /\ UNCHANGED <<data, parts, img, full, info>>

\* probe_with_registry(data, registry)
ProbeWithRegistry ==
    /\ Callable
    /\ \E fs \in FeatureSets :
       \E registry \in Registries(Detected(data), Build(64, FALSE, fs)) :
       \E b \in BuildsFor(IF can_decode(registry, Detected(data), Build(64, FALSE, fs))
                          THEN Detected(data) ELSE "Jpeg", {fs}) :
       \E ext \in Answers(Detected(data), b) :
         /\ call' = [op |-> "probe_with_registry", registry |-> registry, b |-> b, ext |-> ext]
         /\ res' = probe_with_registry(data, registry, b, ext)
    /\ phase' = "probed"
    /\ UNCHANGED <<data, parts, img, full, info>>

\* find_box(data, box_type) on the top-level boxes of an ISOBMFF input
FindBox ==
    /\ Callable
    /\ img.family = "Avif"
    /\ \E box_type \in {TagMeta, TagFree, TagMdat, TagIspe} :
       \E b \in BuildsFor("Avif", {AllFeatures}) :
         /\ call' = [op |-> "find_box", box_type |-> box_type, b |-> b]
         /\ res' = find_box(data, box_type, b)
    /\ phase' = "probed"
    /\ UNCHANGED <<data, parts, img, full, info>>

\* result.into_image_info() on what a probe returned; the ProbeResult is consumed
IntoImageInfo ==
    /\ phase = "probed"
    /\ call.op \in {"probe_format", "probe", "probe_with_registry"}
    /\ res.st = "ok"
    /\ info' = into_image_info(res.r)
    /\ call' = [op |-> "into_image_info"]
    /\ phase' = "converted"
    /\ data' = <<>>
    /\ parts' = 0
    /\ full' = 0
    /\ img' = Image("Raw", "start", TRUE, None, 0)
    /\ UNCHANGED res

\* a ProbeResult whose public fields the caller has set
AnyProbeResult ==
    {[format |-> "Png", width |-> w, height |-> h, has_alpha |-> a, has_animation |-> n,
      frame_count |-> c, bit_depth |-> None, bytes_examined |-> W(0)] :
       w \in {None, Some(W(5))}, h \in {None, Some(W(7))},
       a \in {None, Some(TRUE), Some(FALSE)}, n \in {None, Some(TRUE), Some(FALSE)},
       c \in {None, Some(3)}}

IntoImageInfoOf ==
    /\ phase = "build"
    /\ data = <<>>
    /\ img.family = "Raw"
    /\ \E self \in AnyProbeResult :
         /\ res' = Ok(self, -1)
         /\ info' = into_image_info(self)
    /\ call' = [op |-> "into_image_info"]
    /\ phase' = "converted"
    /\ UNCHANGED <<data, parts, img, full>>

Next ==
    \/ Grow
    \/ Truncate
    \/ TruncateTo
    \/ Detect
    \/ ProbeFormat
    \/ Probe
    \/ ProbeWithRegistry
    \/ FindBox
    \/ IntoImageInfo
    \/ IntoImageInfoOf

Spec == Init /\ [][Next]_vars

(***************************************************************************)
(* The two loops step by step.  An input is assembled as before; then      *)
(* probe_jpeg's marker loop or find_box's loop runs on it one iteration at *)
(* a time.  call holds the loop's variables:                               *)
(*   pos    the scan position (a usize for find_box);                      *)
(*   from   the pos at which the current iteration of the marker loop      *)
(*          began, and at the position of the fill-byte loop inside it;    *)
(*   iters  the iterations completed, of both loops of probe_jpeg;         *)
(*   seen   the positions at which find_box has begun an iteration;        *)
(*   guarded  FALSE for the walker with the non-advancement check          *)
(*          (src/src/probe.rs:492-494) taken out, TRUE for find_box;       *)
(*   skipped  how often that walker went on where the check was.           *)
(* phase is "walk" while the loop runs, "walked" once it is left, and      *)
(* "loops" when the walk is back at a position it has been at: the data do *)
(* not change and pos is the loop's only variable, so it repeats forever.  *)
(***************************************************************************)
WalkInit ==
    /\ data = <<>>
    /\ parts = 0
    /\ \E family \in {"Jpeg", "Avif"} : img = Image(family, "start", TRUE, None, 0)
    /\ full = 0
    /\ phase = "build"
    /\ call = NoCall
    /\ res = NoResult
    /\ info = None

\* probe_jpeg(data) enters its loop: data.len() >= 4, pos = 2
ScanJpeg ==
    /\ Callable
    /\ img.family = "Jpeg"
    /\ Len(data) >= 4
    /\ call' = [op |-> "probe_jpeg", at |-> "scan", pos |-> 2, from |-> 2, iters |-> 0]
    /\ phase' = "walk"
    /\ UNCHANGED <<data, parts, img, full, res, info>>

\* while pos + 1 < data.len() { if data[pos] != 0xFF { break } ..
JpegHead ==
    /\ phase = "walk" /\ call.op = "probe_jpeg" /\ call.at = "scan"
    /\ IF call.pos + 1 < Len(data) /\ At(data, call.pos) = 255
       THEN /\ call' = [call EXCEPT !.at = "fill", !.from = call.pos]
            /\ UNCHANGED <<phase, res>>
       ELSE /\ phase' = "walked"
            /\ res' = Step("break", call.pos)
            /\ UNCHANGED call
    /\ UNCHANGED <<data, parts, img, full, info>>

\* while pos + 1 < data.len() && data[pos + 1] == 0xFF { pos += 1 }
JpegFill ==
    /\ phase = "walk" /\ call.op = "probe_jpeg" /\ call.at = "fill"
    /\ call.iters <= Len(data)
    /\ call.pos + 1 < Len(data) /\ At(data, call.pos + 1) = 255
    /\ call' = [call EXCEPT !.pos = call.pos + 1, !.iters = call.iters + 1]
    /\ UNCHANGED <<data, parts, img, full, phase, res, info>>

\* the rest of the iteration, from `if pos + 1 >= data.len()` on
JpegMarker ==
    /\ phase = "walk" /\ call.op = "probe_jpeg" /\ call.at = "fill"
    /\ call.iters <= Len(data)
    /\ ~(call.pos + 1 < Len(data) /\ At(data, call.pos + 1) = 255)
    /\ \E w \in {jpeg_body(data, call.pos)} :
         IF w.st = "continue"
         THEN /\ call' = [call EXCEPT !.at = "scan", !.pos = w.pos,
                                      !.iters = call.iters + 1]
              /\ UNCHANGED <<phase, res>>
         ELSE /\ phase' = "walked"
              /\ res' = w
              /\ UNCHANGED call
    /\ UNCHANGED <<data, parts, img, full, info>>

\* find_box(data, box_type) enters its loop: pos = 0
WalkFindBox ==
    /\ Callable
    /\ img.family = "Avif"
    /\ \E box_type \in {TagMeta, TagIspe} :
       \E b \in BuildsFor("Avif", {AllFeatures}) :
       \E guarded \in BOOLEAN :
         call' = [op |-> "find_box", box_type |-> box_type, b |-> b, guarded |-> guarded,
                  pos |-> W(0), seen |-> {}, iters |-> 0, skipped |-> 0]
    /\ phase' = "walk"
    /\ UNCHANGED <<data, parts, img, full, res, info>>

\* one iteration of find_box's loop; without the non-advancement check the
\* walk goes on where the check would have returned None
BoxIterate ==
    /\ phase = "walk" /\ call.op = "find_box"
    /\ call.pos \notin call.seen
    /\ call.iters <= Len(data)
    /\ \E w \in {box_iter(data, call.box_type, call.pos, call.b)} :
         IF w.st = "next" \/ (w.st = "stuck" /\ ~call.guarded)
         THEN /\ call' = [call EXCEPT !.pos = w.pos,
                                      !.seen = call.seen \cup {call.pos},
                                      !.iters = call.iters + 1,
                                      !.skipped = IF w.st = "stuck" THEN call.skipped + 1
                                                  ELSE call.skipped]
              /\ UNCHANGED <<phase, res>>
         ELSE /\ phase' = "walked"
              /\ res' = w
              /\ UNCHANGED call
    /\ UNCHANGED <<data, parts, img, full, info>>

\* the walk is at a position it has been at before
BoxRevisit ==
    /\ phase = "walk" /\ call.op = "find_box"
    /\ call.pos \in call.seen
    /\ phase' = "loops"
    /\ UNCHANGED <<data, parts, img, full, call, res, info>>

WalkNext ==
    \/ Grow
    \/ Truncate
    \/ ScanJpeg
    \/ JpegHead
    \/ JpegFill
    \/ JpegMarker
    \/ WalkFindBox
    \/ BoxIterate
    \/ BoxRevisit

\* a loop that has been entered keeps running: the code is sequential
WalkSpec ==
    /\ WalkInit
    /\ [][WalkNext]_vars
    /\ WF_vars(JpegHead \/ JpegFill \/ JpegMarker \/ BoxIterate \/ BoxRevisit)

(***************************************************************************)
(* Properties.                                                             *)
(***************************************************************************)
Probing == phase = "probed" /\ call.op \in {"probe_format", "probe", "probe_with_registry"}
Returned == Probing /\ res.st = "ok"

\* data is the whole of a well-formed file of its family
FullImage == img.family \in Formats /\ img.stage = "done" /\ img.ok /\ Len(data) = full
\* data is the first min_probe_bytes() bytes of a well-formed file of its family
MinPrefix ==
    /\ img.family \in Formats
    /\ img.stage = "done"
    /\ img.ok
    /\ Len(data) = min_probe_bytes(img.family)
    /\ Len(data) <= full
\* the call probes data as the format of the file it was cut from
ProbedAsItself ==
    /\ phase = "probed"
    /\ \/ call.op = "probe_format" /\ call.format = img.family
       \/ call.op = "probe" /\ detect(data) = Some(img.family)
ExactDims ==
    /\ res.st = "ok"
    /\ res.r.width = Some(Unwrap(img.dims)[1])
    /\ res.r.height = Some(Unwrap(img.dims)[2])
\* JPEG XL: the dimensions are the external decoder's when it is compiled in
\* and answers, and absent otherwise
DecoderDims ==
    /\ res.st = "ok"
    /\ IF "jxl-decode" \in call.b.features /\ IsSome(call.ext)
       THEN /\ res.r.width = Some(Unwrap(call.ext).width)
            /\ res.r.height = Some(Unwrap(call.ext).height)
       ELSE res.r.width = None /\ res.r.height = None

\* C1: for every input and each of the six formats, for_format (reached
\* through probe_format) returns without panicking, and every byte index it
\* reads is below the length of the input.
C1_NoPanicNoOverread ==
    phase = "probed" /\ call.op = "probe_format"
        => res.st = "ok" /\ res.rd < Len(data)

\* C2: in every ProbeResult a parser produces, width and height are both
\* present or both absent.
C2_DimsBothOrNeither ==
    Returned => (IsSome(res.r.width) <=> IsSome(res.r.height))
C2_Witness ==
    /\ Returned
    /\ Len(data) < full
    /\ call.op = "probe_format" /\ call.format = "Gif"
    /\ IsSome(res.r.width) /\ IsSome(res.r.height)

\* C3: in every ProbeResult a parser produces, bytes_examined is at most the
\* length of the input.
C3_BytesExaminedWithinInput ==
    Returned => WLe(res.r.bytes_examined, W(Len(data)))

\* C4: probe_format always returns a ProbeResult, and its format field is the
\* asserted format.
C4_ProbeFormatAlwaysResult ==
    phase = "probed" /\ call.op = "probe_format"
        => res.st = "ok" /\ res.r.format = call.format

\* C5: probe returns Err(UnrecognizedFormat) exactly when detect finds no
\* signature, and otherwise Ok with the result probe_format gives for the
\* detected format; it returns no other error.
C5_ProbeDetectsThenParses ==
    phase = "probed" /\ call.op = "probe"
        => IF detect(data) = None
           THEN res.st = "err" /\ res.r = UnrecognizedFormat
           ELSE /\ res.st = "ok"
                /\ res.r = probe_format(data, Unwrap(detect(data)), call.b, call.ext).r

\* C6: probe_with_registry gives Err(UnrecognizedFormat) whenever detect finds
\* no signature, whatever the registry holds; Err(DisabledFormat(f)) when
\* detect finds f and the registry cannot decode f; and otherwise exactly
\* what probe_format(data, f) gives.  It gives no other error.
C6_RegistryOrder ==
    phase = "probed" /\ call.op = "probe_with_registry"
        => IF detect(data) = None
           THEN res.st = "err" /\ res.r = UnrecognizedFormat
           ELSE IF ~can_decode(call.registry, Unwrap(detect(data)), call.b)
           THEN res.st = "err" /\ res.r = DisabledFormat(Unwrap(detect(data)))
           ELSE res = probe_format(data, Unwrap(detect(data)), call.b, call.ext)
C6_Witness ==
    /\ phase = "probed" /\ call.op = "probe_with_registry"
    /\ res.st = "err" /\ res.r = DisabledFormat("Avif")
    /\ detect(data) = Some("Avif")
    /\ "Avif" \in call.registry.decode_enabled

C9_IntoImageInfo ==
    phase = "converted"
        => /\ IsSome(info) <=> (IsSome(res.r.width) /\ IsSome(res.r.height))
           /\ IsSome(info) =>
                /\ Unwrap(info).width = Unwrap(res.r.width)
                /\ Unwrap(info).height = Unwrap(res.r.height)
                /\ Unwrap(info).format = res.r.format
                /\ Unwrap(info).has_alpha =
                       (IF IsSome(res.r.has_alpha) THEN Unwrap(res.r.has_alpha) ELSE FALSE)
                /\ Unwrap(info).has_animation =
                       (IF IsSome(res.r.has_animation) THEN Unwrap(res.r.has_animation) ELSE FALSE)
                /\ Unwrap(info).frame_count = res.r.frame_count
C9_Witness ==
    /\ phase = "converted"
    /\ res.r.format = "Png" /\ res.r.width = Some(W(1920)) /\ res.r.has_animation = None
    /\ IsSome(info) /\ Unwrap(info).has_animation = FALSE

\* the magic signatures, in the order the formats are listed
HasBytes(d, off, bytes) ==
    Len(d) >= off + Len(bytes) /\ SubSeq(d, off + 1, off + Len(bytes)) = bytes
SignatureOrder == <<"Jpeg", "Png", "Gif", "WebP", "Avif", "Jxl", "Jxl">>
Signature(k, d) ==
    CASE k = 1 -> HasBytes(d, 0, <<255, 216, 255>>)
      [] k = 2 -> HasBytes(d, 0, <<137, 80, 78, 71, 13, 10, 26, 10>>)
      [] k = 3 -> HasBytes(d, 0, <<71, 73, 70, 56, 55, 97>>)
                  \/ HasBytes(d, 0, <<71, 73, 70, 56, 57, 97>>)
      [] k = 4 -> HasBytes(d, 0, <<82, 73, 70, 70>>) /\ HasBytes(d, 8, <<87, 69, 66, 80>>)
      [] k = 5 -> HasBytes(d, 4, <<102, 116, 121, 112>>)
                  /\ (HasBytes(d, 8, <<97, 118, 105, 102>>) \/ HasBytes(d, 8, <<97, 118, 105, 115>>))
      [] k = 6 -> HasBytes(d, 0, <<255, 10>>)
      [] k = 7 -> HasBytes(d, 0, <<0, 0, 0, 12, 74, 88, 76, 32, 13, 10, 135, 10>>)
FirstSignature(d) ==
    LET present == {k \in 1..7 : Signature(k, d)}
    IN  IF present = {} THEN None
        ELSE Some(SignatureOrder[CHOOSE k \in present : \A j \in present : k <= j])

\* C10: detect returns the first format, in the order JPEG, PNG, GIF, WebP,
\* AVIF, JPEG XL codestream, JPEG XL container, whose whole signature is
\* present at its offsets, and absent when none is.
C10_DetectFirstSignature ==
    phase = "probed" /\ call.op = "detect" => res.r = FirstSignature(data)
C10_Witness ==
    /\ phase = "probed" /\ call.op = "detect"
    /\ Signature(1, data) /\ Signature(5, data)
    /\ res.r = Some("Jpeg")

\* C11: probe_with_registry accepts a detected format exactly when the
\* registry handed to it has decoding of that format enabled, whether or not
\* the build compiles that format's codec feature in.
C11_AcceptsExactlyEnabled ==
    phase = "probed" /\ call.op = "probe_with_registry" /\ IsSome(detect(data))
        => (res # Err(DisabledFormat(Unwrap(detect(data))), -1)
              <=> Unwrap(detect(data)) \in call.registry.decode_enabled)

\* the call ran the parser of format f on data
Parses(f) ==
    /\ phase = "probed"
    /\ \/ call.op = "probe_format" /\ call.format = f
       \/ call.op = "probe" /\ detect(data) = Some(f)
       \/ /\ call.op = "probe_with_registry"
          /\ detect(data) = Some(f)
          /\ can_decode(call.registry, f, call.b)

\* header fields as the formats define them, read at byte offset off
Byte(d, off) == d[off + 1]
BeU16At(d, off) == Byte(d, off) * 256 + Byte(d, off + 1)
LeU16At(d, off) == Byte(d, off) + Byte(d, off + 1) * 256
LeU24At(d, off) == LeU16At(d, off) + Byte(d, off + 2) * Limb
BeU32At(d, off) == <<BeU16At(d, off + 2), BeU16At(d, off), 0, 0>>
\* bit i (least significant first) of the little-endian field at off
BitAt(d, off, i) == (Byte(d, off + i \div 8) \div 2 ^ (i % 8)) % 2
\* the value of the count bits from bit i on
RECURSIVE BitsAt(_, _, _, _)
BitsAt(d, off, i, count) ==
    IF count = 0 THEN 0 ELSE BitAt(d, off, i) + 2 * BitsAt(d, off, i + 1, count - 1)

NoDims == res.r.width = None /\ res.r.height = None

\* C12: the PNG parser, given at least 33 bytes with 'IHDR' at bytes 12..16,
\* reports width = the big-endian u32 at 16, height = the big-endian u32 at
\* 20, bit_depth = byte 24 and has_alpha = (byte 25 is 4 or 6); given fewer
\* bytes or another tag it reports none of the four; has_animation and
\* frame_count are absent in every case.
C12_PngHeader ==
    Parses("Png")
        => /\ res.st = "ok"
           /\ IF Len(data) >= 33 /\ HasBytes(data, 12, <<73, 72, 68, 82>>)
              THEN /\ res.r.width = Some(BeU32At(data, 16))
                   /\ res.r.height = Some(BeU32At(data, 20))
                   /\ res.r.bit_depth = Some(Byte(data, 24))
                   /\ res.r.has_alpha = Some(Byte(data, 25) \in {4, 6})
              ELSE /\ NoDims
                   /\ res.r.bit_depth = None
                   /\ res.r.has_alpha = None
           /\ res.r.has_animation = None
           /\ res.r.frame_count = None
C12_Witness ==
    /\ Parses("Png")
    /\ Len(data) >= 33 /\ HasBytes(data, 12, <<73, 72, 68, 82>>)
    /\ Byte(data, 25) = 4
    /\ res.st = "ok" /\ res.r.width = Some(W(32)) /\ res.r.has_alpha = Some(TRUE)

\* C13: the GIF parser, given at least 13 bytes, reports width = the
\* little-endian u16 at 6, height = the little-endian u16 at 8, has_alpha =
\* true and bit_depth = 8; given fewer it reports no dimensions;
\* has_animation and frame_count are absent in every case.
C13_GifHeader ==
    Parses("Gif")
        => /\ res.st = "ok"
           /\ IF Len(data) >= 13
              THEN /\ res.r.width = Some(W(LeU16At(data, 6)))
                   /\ res.r.height = Some(W(LeU16At(data, 8)))
                   /\ res.r.has_alpha = Some(TRUE)
                   /\ res.r.bit_depth = Some(8)
              ELSE NoDims
           /\ res.r.has_animation = None
           /\ res.r.frame_count = None
C13_Witness ==
    /\ Parses("Gif")
    /\ Len(data) = 13
    /\ res.st = "ok" /\ res.r.width = Some(W(65535)) /\ res.r.height = Some(W(1))

\* the result carries the format and nothing else
FormatOnly ==
    /\ NoDims
    /\ res.r.has_alpha = None
    /\ res.r.has_animation = None
    /\ res.r.frame_count = None
    /\ res.r.bit_depth = None

\* C14: WebP with the tag 'VP8X' at offset 12: given at least 30 bytes the
\* parser reports has_alpha = bit 0x10 of byte 20, has_animation = bit 0x02
\* of byte 20, width = 1 + the 24-bit little-endian value at 24 and height =
\* 1 + the 24-bit little-endian value at 27; given fewer it reports no
\* dimensions, alpha or animation.
C14_WebpVp8x ==
    Parses("WebP") /\ HasBytes(data, 12, <<86, 80, 56, 88>>)
        => /\ res.st = "ok"
           /\ IF Len(data) >= 30
              THEN /\ res.r.has_alpha = Some(BitAt(data, 20, 4) = 1)
                   /\ res.r.has_animation = Some(BitAt(data, 20, 1) = 1)
                   /\ res.r.width = Some(W(1 + LeU24At(data, 24)))
                   /\ res.r.height = Some(W(1 + LeU24At(data, 27)))
              ELSE /\ NoDims
                   /\ res.r.has_alpha = None
                   /\ res.r.has_animation = None
C14_Witness ==
    /\ Parses("WebP") /\ HasBytes(data, 12, <<86, 80, 56, 88>>)
    /\ Len(data) >= 30 /\ Byte(data, 20) = 16
    /\ res.st = "ok" /\ res.r.width = Some(W(640)) /\ res.r.height = Some(W(480))
    /\ res.r.has_alpha = Some(TRUE) /\ res.r.has_animation = Some(FALSE)

\* C15: WebP with the tag 'VP8 ': given at least 30 bytes with 9D 01 2A at
\* bytes 23..26 the parser reports width and height = the low 14 bits of the
\* little-endian u16 at 26 and at 28, has_alpha = false and has_animation =
\* false; with another start code or fewer bytes the result is format-only.
C15_WebpVp8 ==
    Parses("WebP") /\ HasBytes(data, 12, <<86, 80, 56, 32>>)
        => /\ res.st = "ok"
           /\ IF Len(data) >= 30 /\ HasBytes(data, 23, <<157, 1, 42>>)
              THEN /\ res.r.width = Some(W(BitsAt(data, 26, 0, 14)))
                   /\ res.r.height = Some(W(BitsAt(data, 28, 0, 14)))
                   /\ res.r.has_alpha = Some(FALSE)
                   /\ res.r.has_animation = Some(FALSE)
              ELSE FormatOnly
C15_Witness ==
    /\ Parses("WebP") /\ HasBytes(data, 12, <<86, 80, 56, 32>>)
    /\ Len(data) >= 30 /\ LeU16At(data, 28) = 192 * 256 + 48
    /\ res.st = "ok" /\ res.r.width = Some(W(64)) /\ res.r.height = Some(W(48))

\* C16: WebP with the tag 'VP8L': given at least 25 bytes with 2F at byte 20
\* and b the 32-bit little-endian value at 21, the parser reports width =
\* (b mod 2^14) + 1, height = ((b div 2^14) mod 2^14) + 1 and has_alpha =
\* true; with another signature byte or fewer bytes it reports no dimensions.
C16_WebpVp8l ==
    Parses("WebP") /\ HasBytes(data, 12, <<86, 80, 56, 76>>)
        => /\ res.st = "ok"
           /\ IF Len(data) >= 25 /\ Byte(data, 20) = 47
              THEN /\ res.r.width = Some(W(BitsAt(data, 21, 0, 14) + 1))
                   /\ res.r.height = Some(W(BitsAt(data, 21, 14, 14) + 1))
                   /\ res.r.has_alpha = Some(TRUE)
              ELSE NoDims
C16_Witness ==
    /\ Parses("WebP") /\ HasBytes(data, 12, <<86, 80, 56, 76>>)
    /\ Len(data) >= 25 /\ Byte(data, 24) = 240
    /\ res.st = "ok" /\ res.r.width = Some(W(64)) /\ res.r.height = Some(W(48))

\* data holds SOI, then skipped segments, standalone markers and fill bytes,
\* then a complete start-of-frame segment, which begins at offset SofAt
SoiToSof ==
    /\ img.family = "Jpeg"
    /\ img.stage \in {"frame", "done"}
    /\ Len(data) >= img.dims_end
SofAt == img.dims_end - Len(JpegSof(192, 8, 1, 1))

\* C17: on SOI, then any sequence of complete non-SOF length-prefixed
\* segments, standalone markers and 0xFF fill bytes, then a complete
\* start-of-frame segment, the JPEG parser reports bit_depth = the precision
\* byte of that segment, height = the big-endian u16 after it and width =
\* the big-endian u16 after that.
C17_JpegSof ==
    SoiToSof /\ Parses("Jpeg")
        => /\ res.st = "ok"
           /\ res.r.bit_depth = Some(Byte(data, SofAt + 4))
           /\ res.r.height = Some(W(BeU16At(data, SofAt + 5)))
           /\ res.r.width = Some(W(BeU16At(data, SofAt + 7)))
C17_Witness ==
    /\ SoiToSof /\ Parses("Jpeg")
    /\ HasBytes(data, 2, <<255, 255, 196>>)
    /\ res.st = "ok" /\ res.r.bit_depth = Some(12)
    /\ res.r.width = Some(W(65535)) /\ res.r.height = Some(W(65535))

\* C18: every result of the JPEG parser (empty input, fewer than 4 bytes,
\* truncated input and input without a start-of-frame included) has
\* has_alpha = false, has_animation = false and frame_count = 1.
C18_JpegFixedFields ==
    Parses("Jpeg")
        => /\ res.st = "ok"
           /\ res.r.has_alpha = Some(FALSE)
           /\ res.r.has_animation = Some(FALSE)
           /\ res.r.frame_count = Some(1)
C18_Witness ==
    /\ Parses("Jpeg")
    /\ Len(data) < 4
    /\ res.st = "ok" /\ NoDims /\ res.r.frame_count = Some(1)

(***************************************************************************)
(* The sibling walk over exact natural numbers: offsets and sizes are not  *)
(* confined to a machine word.  A size is a wide value, an end offset the  *)
(* exact sum with its carry out of bit 64.                                 *)
(***************************************************************************)
Absent == [st |-> "none"]
Content(lo, hi, end) == [st |-> "found", lo |-> lo, hi |-> hi, end |-> end]
\* the header length and the declared size of the box at offset start
HeaderOf(d, start) == IF BeU32At(d, start) = W(1) THEN 16 ELSE 8
SizeOf(d, start) ==
    IF BeU32At(d, start) = W(1)
    THEN <<BeU16At(d, start + 14), BeU16At(d, start + 12),
           BeU16At(d, start + 10), BeU16At(d, start + 8)>>
    ELSE IF BeU32At(d, start) = W(0) THEN W(Len(d) - start)
    ELSE BeU32At(d, start)
\* whether the exact offset e lies before n
Before(e, n) == e.carry = 0 /\ WLt(e.v, W(n))

RECURSIVE Sibling(_, _, _)
Sibling(d, tag, start) ==
    IF Len(d) - start < 8 THEN Absent
    ELSE IF Len(d) - start < HeaderOf(d, start) THEN Absent
    ELSE IF WLt(SizeOf(d, start), W(HeaderOf(d, start))) THEN Absent
    ELSE IF HasBytes(d, start + 4, tag)
         THEN Content(start + HeaderOf(d, start),
                      IF Before(WSum(W(start), SizeOf(d, start)), Len(d))
                      THEN ToInt(WSum(W(start), SizeOf(d, start)).v) ELSE Len(d),
                      WSum(W(start), SizeOf(d, start)))
    ELSE IF Before(WSum(W(start), SizeOf(d, start)), Len(d))
         THEN Sibling(d, tag, ToInt(WSum(W(start), SizeOf(d, start)).v))
    ELSE Absent

\* what find_box returned, in the same terms
Returns(w) ==
    IF w.st = "none" THEN Absent
    ELSE IF w.st = "found" THEN Content(w.lo, w.hi, [v |-> w.end, carry |-> 0])
    ELSE [st |-> w.st]

\* C20: find_box(data, tag) walks the sibling boxes from offset 0 by their
\* declared sizes and returns, for the first whose tag matches, the content
\* data[start + header .. min(start + size, len)] and the end start + size
\* (header 8 and the 32-bit size; header 16 and the following 64-bit size
\* when the size field is 1; size len - start when it is 0); it returns
\* absent when no sibling matches, when fewer than 8 (or 16) header bytes
\* remain, or when a declared size is smaller than its header.
C20_FindBoxWalk ==
    phase = "probed" /\ call.op = "find_box"
        => Returns(res) = Sibling(data, call.box_type, 0)

\* the content of the first sibling tagged tag within the content o, if any
ContentOf(d, x) == IF x.st = "found" THEN Some(SubSeq(d, x.lo + 1, x.hi)) ELSE None
Child(o, tag) == IF o = None THEN None ELSE ContentOf(Unwrap(o), Sibling(Unwrap(o), tag, 0))
\* the content of a full box after its 4 bytes of version and flags
AfterFlags(o) ==
    IF o = None THEN None
    ELSE IF Len(Unwrap(o)) >= 4 THEN Some(SubSeq(Unwrap(o), 5, Len(Unwrap(o))))
    ELSE None
\* meta -> iprp -> ipco -> ispe
IspeContent(d) ==
    Child(Child(Child(AfterFlags(Child(Some(d), TagMeta)), TagIprp), TagIpco), TagIspe)
DimsIn(o) ==
    /\ res.r.width = Some(BeU32At(Unwrap(o), 4))
    /\ res.r.height = Some(BeU32At(Unwrap(o), 8))
ChainDims(o) ==
    IF IsSome(o) /\ Len(Unwrap(o)) >= 12 THEN DimsIn(o) ELSE FormatOnly

\* C19: the AVIF parser reports dimensions exactly when the walk finds a
\* top-level 'meta' box, an 'iprp' box in its content after 4 bytes of
\* version and flags, an 'ipco' box in that and an 'ispe' box in that with
\* at least 12 bytes of content; width and height are then the big-endian
\* u32 at offsets 4 and 8 of the ispe content; when a link is missing the
\* result is format-only, and there is no error.
C19_AvifChain ==
    Parses("Avif") => res.st = "ok" /\ ChainDims(IspeContent(data))

\* C22: in a build without the jxl-decode feature the JXL parser returns, for
\* every input, format = JXL with width, height, has_alpha, has_animation,
\* frame_count and bit_depth all absent.
C22_JxlWithoutDecoder ==
    Parses("Jxl") /\ "jxl-decode" \notin call.b.features
        => res.st = "ok" /\ res.r.format = "Jxl" /\ FormatOnly
C22_Witness ==
    /\ Parses("Jxl") /\ "jxl-decode" \notin call.b.features
    /\ img.family = "Jxl" /\ Len(data) > 12
    /\ res.st = "ok" /\ res.r.format = "Jxl" /\ FormatOnly

\* data is SOI, then skipped segments, standalone markers and fill bytes,
\* then a start-of-scan marker, an end-of-image marker or a byte other than
\* 0xFF at a marker position, which ends at offset StopEnd; a start-of-frame
\* segment may follow it.  (A 0x00 that follows a fill byte is the standalone
\* marker FF 00, not a byte at a marker position.)
StopEnd == IF img.stage = "late" THEN full - Len(JpegSof(192, 8, 1, 1)) ELSE full
JpegStopped ==
    /\ img.family = "Jpeg"
    /\ img.stage \in {"stopped", "late"}
    /\ ~HasBytes(data, StopEnd - 2, <<255, 0>>)

\* C23: the JPEG marker scan stops at the first start-of-scan (0xDA) marker,
\* end-of-image (0xD9) marker, or marker position whose byte is not 0xFF; when
\* that comes before any start-of-frame marker no dimensions are reported,
\* even when a start-of-frame segment appears later in the input.
C23_JpegStopsAtScan ==
    JpegStopped /\ Parses("Jpeg")
        => /\ res.st = "ok"
           /\ NoDims
           /\ res.r.bit_depth = None
           /\ WLe(res.r.bytes_examined, W(StopEnd))
C23_Witness ==
    /\ JpegStopped /\ Parses("Jpeg")
    /\ img.stage = "late" /\ Len(data) = full
    /\ HasBytes(data, StopEnd - 2, <<255, 217, 255, 192, 0, 11, 8, 1, 224, 2, 128>>)
    /\ res.st = "ok" /\ NoDims /\ res.r.bytes_examined = W(StopEnd)

\* data is SOI, then skipped segments, standalone markers and fill bytes,
\* then a start-of-frame marker at offset SofAt and what the caller holds of
\* its segment
JpegAtSof ==
    /\ img.family = "Jpeg"
    /\ img.stage \in {"frame", "done"}
    /\ Len(data) >= SofAt + 2
\* the dimensions are those of the segment at SofAt when at least k bytes
\* follow its marker code, and absent otherwise
SofDimsFrom(k) ==
    /\ res.st = "ok"
    /\ IF Len(data) >= SofAt + 2 + k
       THEN /\ res.r.height = Some(W(BeU16At(data, SofAt + 5)))
            /\ res.r.width = Some(W(BeU16At(data, SofAt + 7)))
       ELSE NoDims

\* C24 as stated: at a start-of-frame marker the parser returns the
\* dimensions when the 2-byte length, 1-byte precision, 2-byte height and
\* 2-byte width after the marker code (7 bytes) lie within the input, and no
\* dimensions only when one of those fields is cut off.
C24_SofFieldsWithin == JpegAtSof /\ Parses("Jpeg") => SofDimsFrom(7)

\* C24, amended: the parser returns the dimensions when 8 bytes follow the
\* marker code (the seven of length, precision, height and width, and the
\* component count after them), and no dimensions when fewer do.
C24_SofEightBytes == JpegAtSof /\ Parses("Jpeg") => SofDimsFrom(8)
C24_Witness ==
    /\ JpegAtSof /\ Parses("Jpeg")
    /\ Len(data) = SofAt + 10
    /\ res.st = "ok" /\ res.r.width = Some(W(640)) /\ res.r.height = Some(W(480))

\* the call ran the in-core parser of format f: for JXL, the one of a build
\* without the external decoder
InCore(f) == Parses(f) /\ (f = "Jxl" => "jxl-decode" \notin call.b.features)
EightOrAbsent(formats) ==
    \A f \in formats :
        InCore(f) /\ res.st = "ok" => res.r.bit_depth \in {None, Some(8)}

\* C26 as stated: only the PNG parser can report a bit depth other than 8;
\* every result of the GIF, WebP, JPEG, AVIF and in-core JXL parsers has a
\* bit depth that is absent or 8.
C26_OnlyPngOtherThan8 == EightOrAbsent({"Gif", "WebP", "Jpeg", "Avif", "Jxl"})

\* C26, amended: every result of the GIF, WebP, AVIF and in-core JXL parsers
\* has a bit depth that is absent or 8; the JPEG parser, like the PNG
\* parser, reports what the file declares.
C26_BitDepthEight == EightOrAbsent({"Gif", "WebP", "Avif", "Jxl"})
C26_Witness ==
    /\ InCore("WebP") /\ HasBytes(data, 12, TagVP8L) /\ Len(data) >= 25
    /\ res.st = "ok" /\ res.r.bit_depth = Some(8) /\ ~NoDims

\* the highest byte index the call read lies below the bytes_examined it reports
ReadsBelowExamined ==
    res.st = "ok" => res.rd < 0 \/ WLt(W(res.rd), res.r.bytes_examined)

\* C27: no parser consults a byte at an index greater than or equal to the
\* bytes_examined value it reports: for every input and format, every byte
\* index read during the call is strictly less than the result's
\* bytes_examined.
C27_BytesExaminedBoundsReads ==
    \A f \in Formats : Parses(f) => ReadsBelowExamined

\* the prefixes compared with an input are its first 0 .. MaxPrefix bytes
MaxPrefix == 16

\* C28: format detection is stable under prefix extension: if
\* ImageFormat::detect returns a format for some input, it returns the same
\* format for every longer input that begins with those bytes.
C28_DetectStable ==
    phase = "probed" /\ call.op = "detect"
        => \A k \in 0..Min(Len(data), MaxPrefix) :
              detect(Slice(data, 0, k)) \in {None, res.r}

\* the lengths of the prefixes of data that are probed next to data: up to
\* MaxDrop bytes short of data, and up to MaxDrop bytes short of the end of
\* the piece that carries the dimensions
Shorter ==
    ({Len(data) - j : j \in 1..MaxDrop} \cup {img.dims_end - j : j \in 0..MaxDrop})
        \cap 0..(Len(data) - 1)
\* the call on data reports the dimensions that the call on a prefix reported
KeepsDims(short) ==
    short.st = "ok" /\ (IsSome(short.r.width) \/ IsSome(short.r.height))
        => res.st = "ok" /\ res.r.width = short.r.width /\ res.r.height = short.r.height

\* C29: recovered dimensions are stable under prefix extension: for the PNG,
\* GIF, WebP, JPEG and AVIF parsers, if probing a prefix with an asserted
\* format reports dimensions (w, h), probing a longer input that begins with
\* that prefix, with the same format, reports the same (w, h).
C29_DimsStable ==
    phase = "probed" /\ call.op = "probe_format"
                     /\ call.format \in {"Png", "Gif", "WebP", "Jpeg", "Avif"}
        => \A k \in Shorter :
              KeepsDims(for_format(Slice(data, 0, k), call.format, call.b, call.ext))
C29_Witness ==
    /\ phase = "probed" /\ call.op = "probe_format" /\ call.format = "Avif"
    /\ img.family = "Avif" /\ img.stage = "done"
    /\ for_format(Slice(data, 0, img.dims_end), "Avif", call.b, call.ext).r.width
          = Some(W(1920))
    /\ res.st = "ok" /\ res.r.width = Some(W(1920)) /\ res.r.height = Some(W(1080))

(***************************************************************************)
(* Properties of the loops, under WalkSpec.                                *)
(***************************************************************************)
\* a loop of the code is running: probe_jpeg's, or find_box's
Running == phase = "walk" /\ (call.op = "probe_jpeg" \/ call.guarded)
\* the step completed an iteration and the loop goes on at a greater
\* position: greater than where the iteration began
Advanced ==
    IF call.op = "find_box" THEN WLt(call.pos, call'.pos)
    ELSE IF call'.at = "fill" THEN call'.pos > call.pos
    ELSE call'.pos > call.from

\* C21: every probe call terminates on every finite input: in the JPEG
\* marker scan and in the ISOBMFF box walk the scan position strictly
\* increases on every loop iteration that does not exit, so the number of
\* iterations is at most the input length, and a running loop is left.
C21_LoopsTerminate ==
    /\ [][Running /\ call'.iters > call.iters => Advanced]_vars
    /\ [](Running => call.iters <= Len(data))
    /\ (Running ~> phase = "walked")
C21_Witness ==
    /\ phase = "walked" /\ call.op = "find_box" /\ call.guarded
    /\ call.iters >= 4 /\ res.st = "end"

\* C25: in the box walker the non-advancement check (return absent when a
\* box's end offset is not past its start) is what prevents non-termination:
\* find_box never comes back to a position, while the walker without the
\* check does, on a malformed input that no other check of the walker stops;
\* every walk that repeats went on where the check was, after a sum that
\* wrapped (without overflow checks).
C25_CheckPreventsLoop ==
    phase = "loops"
        => ~call.guarded /\ call.skipped >= 1 /\ ~call.b.overflow_checks
C25_Witness ==
    /\ phase = "loops" /\ ~call.guarded /\ call.b.usize_bits = 64
    /\ call.pos = W(0) /\ call.iters = 2
    /\ HasBytes(data, 20, <<0, 0, 0, 1>> \o TagFree \o Be64Neg(20))

\* the build b with overflow checks on: its sums panic exactly when the
\* mathematical sum does not fit the word
WithChecks(b) == [b EXCEPT !.overflow_checks = TRUE]
\* find_box is at the top of an iteration whose loop test passes
BoxEntered ==
    /\ phase = "walk" /\ call.op = "find_box" /\ call.guarded
    /\ call.pos \notin call.seen
    /\ WLt(call.pos, W(Len(data))) /\ ToInt(call.pos) + 8 <= Len(data)
\* the box's size fields are read in full (lines 454-475)
BoxSized(box) == box.header = 16 => ToInt(call.pos) + 16 <= Len(data)

\* C30: in the box walker the offsets start + header_size and
\* start + box_size are computed without overflowing or wrapping the word,
\* and the declared (64-bit extended) size is converted to the word size
\* without loss, at every box find_box processes.
C30_OffsetsExact ==
    BoxEntered =>
        \A box \in {box_size(data, ToInt(call.pos), call.b)} :
            BoxSized(box) =>
                /\ box.size = box.declared
                /\ ~WLt(box.size, W(box.header)) =>
                      /\ ~UsizeAdd(call.pos, W(box.header), WithChecks(call.b)).panic
                      /\ ~UsizeAdd(call.pos, box.size, WithChecks(call.b)).panic

====
